---- MODULE Spec2Model ----
(***************************************************************************)
(* NotFlappyBird (src/main.c): the game state machine, the collision test, *)
(* the score counter and the double-buffered display, as a state machine.  *)
(*                                                                         *)
(* The screen is modelled at a reduced size (SCREEN_WIDTH x SCREEN_HEIGHT  *)
(* below); the .entity sprite files are not part of the sources, so the    *)
(* views loaded from them are small stand-ins of the same shape, and the   *)
(* pixel literals of main() and start_game() are reduced in proportion.    *)
(* The bird's velocity is a float in the code; here it is an exact         *)
(* fixed-point number counted in 1/UNIT of a cell per tick.                *)
(***************************************************************************)
EXTENDS Integers, Sequences, FiniteSets, TLC

VARIABLES
    game_state,     \* struct GameState of main()
    display_state,  \* struct DisplayState of main()
    terminal,       \* the characters shown by the console, cell by cell
    writes,         \* the positioned writes issued by the last step
    periodic_timers, \* struct PeriodicTimer periodic_timers[] of main()
    iteration,      \* how many times the main loop has been entered; the steps
                    \* taken where update_score_counter is followed on its own
    pc,             \* where the program is
    entity1,        \* first argument of check_collision
    entity2,        \* second argument of check_collision
    collision,      \* value returned by check_collision
    clock,          \* what millis() returns
    timer_log,      \* what run_periodic_timers did in its current pass, per timer
    keys,           \* the keys GetAsyncKeyState reports as down
    files           \* the sprite files: whether fopen opens them and what fscanf returns

vars == <<game_state, display_state, terminal, writes, periodic_timers, iteration, pc,
          entity1, entity2, collision, clock, timer_log, keys, files>>

----------------------------------------------------------------------------
(* Bounds of the model *)

SCREEN_WIDTH == 8
SCREEN_HEIGHT == 8
\* rand() returns a value in 0..RAND_MAX
RAND_MAX == 1
\* check_collision is tried on positions 0..MaxPos, origins 0..MaxPos
MaxPos == 1
\* and on view widths and heights 0..MaxSize
MaxSize == 2
\* the main loop is followed for MaxIterations iterations
MaxIterations == 2

\* the scores update_score_counter is followed for, and for how many steps
MaxScore == 99999

MaxScoreSteps == 2

\* run_periodic_timers on a clock: the passes followed, and what millis()
\* returns when the loop is first entered (more than every period)
MaxPasses == 2

StartTime == 1000

(* Program constants *)

SCORE_COUNTER_DIGITS == 5
\* capacity of Entity.views
MAX_VIEWS == 10
\* capacity of GameState.entities
MAX_ENTITIES == 25
\* capacity of GameState.obstacles
MAX_OBSTACLES == 25
\* velocity is counted in 1/UNIT
UNIT == 40

TITLE_SCREEN == "TITLE_SCREEN"
GAME_SCREEN == "GAME_SCREEN"

VK_ESCAPE == "VK_ESCAPE"
VK_SPACE == "VK_SPACE"
VK_LEFT == "VK_LEFT"
VK_RIGHT == "VK_RIGHT"
\* the keys game_tick reacts to, in the order its loop over 0..255 meets them
\* (VK_ESCAPE = 27, VK_SPACE = 32, VK_LEFT = 37, VK_RIGHT = 39)
Keys == {VK_ESCAPE, VK_SPACE, VK_LEFT, VK_RIGHT}

NUL == "NUL"
\* the value of a variable a specification does not use
Unused == "unused"
NL == "\n"

----------------------------------------------------------------------------
(* Views and entities *)

\* an EntityView as add_entity_view_from_file leaves it: the body read up to
\* end of file, followed by the terminating 0
EntityView(w, h, ox, oy, body) ==
    [origin_x |-> ox, origin_y |-> oy, width |-> w, height |-> h,
     display_size |-> Len(body) + 1, display |-> Append(body, NUL)]

\* the sprite files, by name
Asset(filename) ==
    CASE filename = "not_flappy_bird.entity" ->
            EntityView(3, 1, 1, 0, <<"n", "f", "b">>)
      [] filename = "press_space_to_start.entity" ->
            EntityView(2, 1, 0, 0, <<"g", "o">>)
      [] filename = "obstacle_top.entity" ->
            EntityView(2, 3, 0, 2, <<"#", "#", NL, "#", "#", NL, "#", "#">>)
      [] filename = "obstacle_bottom.entity" ->
            EntityView(2, 3, 0, 0, <<"#", "#", NL, "#", "#", NL, "#", "#">>)
      [] filename = "bird_0.entity" -> EntityView(1, 1, 0, 0, <<"^">>)
      [] filename = "bird_1.entity" -> EntityView(1, 1, 0, 0, <<"-">>)
      [] filename = "bird_2.entity" -> EntityView(2, 1, 1, 0, <<"v", "v">>)
      [] filename = "0.entity" -> EntityView(1, 1, 0, 0, <<"0">>)
      [] filename = "1.entity" -> EntityView(1, 1, 0, 0, <<"1">>)
      [] filename = "2.entity" -> EntityView(1, 1, 0, 0, <<"2">>)
      [] filename = "3.entity" -> EntityView(1, 1, 0, 0, <<"3">>)
      [] filename = "4.entity" -> EntityView(1, 1, 0, 0, <<"4">>)
      [] filename = "5.entity" -> EntityView(1, 1, 0, 0, <<"5">>)
      [] filename = "6.entity" -> EntityView(1, 1, 0, 0, <<"6">>)
      [] filename = "7.entity" -> EntityView(1, 1, 0, 0, <<"7">>)
      [] filename = "8.entity" -> EntityView(1, 1, 0, 0, <<"8">>)
      [] filename = "9.entity" -> EntityView(1, 1, 0, 0, <<"9">>)

DigitFile(i) ==
    <<"0.entity", "1.entity", "2.entity", "3.entity", "4.entity",
      "5.entity", "6.entity", "7.entity", "8.entity", "9.entity">>[i + 1]

\* struct Entity; views[k] of the code is views[k + 1] here
create_entity ==
    [x |-> 0, y |-> 0, num_views |-> 0, current_view |-> 0, views |-> <<>>,
     visible |-> TRUE]

add_entity_view(entity, view) ==
    [entity EXCEPT !.views = Append(@, view), !.num_views = @ + 1]

\* lines 464-527 without line 524
add_entity_view_from_file_uncounted(entity, filename) ==
    [entity EXCEPT !.views = Append(@, Asset(filename))]

add_entity_view_from_file(entity, filename) ==
    add_entity_view(entity, Asset(filename))

\* entity->views[entity->current_view]
CurrentView(entity) == entity.views[entity.current_view + 1]

\* line 534 with the remainder taken by num_views + 1
next_entity_view_past_last(entity) ==
    [entity EXCEPT !.current_view = (@ + 1) % (entity.num_views + 1)]

\* line 534 without the remainder
next_entity_view_unwrapped(entity) ==
    [entity EXCEPT !.current_view = @ + 1]

next_entity_view(entity) ==
    [entity EXCEPT !.current_view = (@ + 1) % entity.num_views]

----------------------------------------------------------------------------
(* check_collision *)

check_collision_inclusive(e1, e2) ==
    LET view1 == CurrentView(e1)
        view2 == CurrentView(e2)
        x1 == e1.x - view1.origin_x
        y1 == e1.y - view1.origin_y
        x2 == e2.x - view2.origin_x
        y2 == e2.y - view2.origin_y
        w1 == view1.width
        h1 == view1.height
        w2 == view2.width
        h2 == view2.height
        collision_x == (x1 < x2 /\ x1 + w1 >= x2) \/ (x2 < x1 /\ x2 + w2 >= x1)
        collision_y == (y1 < y2 /\ y1 + h1 >= y2) \/ (y2 < y1 /\ y2 + h2 >= y1)
    IN  collision_x /\ collision_y

check_collision_one_sided(e1, e2) ==
    LET view1 == CurrentView(e1)
        view2 == CurrentView(e2)
        x1 == e1.x - view1.origin_x
        y1 == e1.y - view1.origin_y
        x2 == e2.x - view2.origin_x
        y2 == e2.y - view2.origin_y
        w1 == view1.width
        h1 == view1.height
        w2 == view2.width
        h2 == view2.height
        collision_x == (x1 < x2 /\ x1 + w1 > x2)
        collision_y == (y1 < y2 /\ y1 + h1 > y2) \/ (y2 < y1 /\ y2 + h2 > y1)
    IN  collision_x /\ collision_y

check_collision(e1, e2) ==
    LET view1 == CurrentView(e1)
        view2 == CurrentView(e2)
        x1 == e1.x - view1.origin_x
        y1 == e1.y - view1.origin_y
        x2 == e2.x - view2.origin_x
        y2 == e2.y - view2.origin_y
        w1 == view1.width
        h1 == view1.height
        w2 == view2.width
        h2 == view2.height
        collision_x == (x1 < x2 /\ x1 + w1 > x2) \/ (x2 < x1 /\ x2 + w2 > x1)
        collision_y == (y1 < y2 /\ y1 + h1 > y2) \/ (y2 < y1 /\ y2 + h2 > y1)
    IN  collision_x /\ collision_y

----------------------------------------------------------------------------
(* Obstacles, the score counter and the render list *)

\* rand(): the values one call can return
RandValues == 0..RAND_MAX

\* a pointer held by game_state.entities: the place of the entity in game_state
Deref(gs, ref) ==
    CASE ref[1] = "title_text" -> gs.title_text
      [] ref[1] = "press_space_to_start" -> gs.press_space_to_start
      [] ref[1] = "top_entity" -> gs.obstacles[ref[2]].top_entity
      [] ref[1] = "bottom_entity" -> gs.obstacles[ref[2]].bottom_entity
      [] ref[1] = "bird" -> gs.bird.entity
      [] ref[1] = "digits" -> gs.score_counter.digits[ref[2]]

register_entity(gs, ref) ==
    [gs EXCEPT !.entity_count = @ + 1, !.entities = Append(@, ref)]

\* lines 596-602 without the rows, lines 600-601
update_obstacle_columns_only(obstacle) ==
    [obstacle EXCEPT !.top_entity.x = obstacle.x,
                     !.bottom_entity.x = obstacle.x]

update_obstacle(obstacle) ==
    [obstacle EXCEPT !.top_entity.x = obstacle.x,
                     !.bottom_entity.x = obstacle.x,
                     !.top_entity.y = obstacle.y - obstacle.gap_size,
                     !.bottom_entity.y = obstacle.y + obstacle.gap_size]

create_obstacle(gs, x, y, gap_size) ==
    LET obstacle_top == add_entity_view_from_file(create_entity, "obstacle_top.entity")
        obstacle_bottom == add_entity_view_from_file(create_entity, "obstacle_bottom.entity")
        output == [x |-> x, y |-> y, gap_size |-> gap_size,
                   top_entity |-> obstacle_top, bottom_entity |-> obstacle_bottom,
                   score_collected |-> FALSE]
        n == gs.obstacle_count + 1
        g1 == [gs EXCEPT !.obstacles = Append(@, output), !.obstacle_count = n]
        g2 == register_entity(g1, <<"top_entity", n>>)
        g3 == register_entity(g2, <<"bottom_entity", n>>)
    IN  [g3 EXCEPT !.obstacles[n] = update_obstacle(@)]

\* The while loop of update_score_counter: digits[digit_number] of the code is
\* digits[digit_number + 1] here. A store to digits[SCORE_COUNTER_DIGITS] or
\* beyond lands outside the array: the digits are left alone and the store is
\* counted in .stray.
RECURSIVE set_digits(_, _, _)
set_digits(sc, score, digit_number) ==
    IF score > 0
    THEN LET digit == score % 10
             next == IF digit_number < SCORE_COUNTER_DIGITS
                     THEN [sc EXCEPT !.digits[digit_number + 1].current_view = digit,
                                     !.digits[digit_number + 1].visible = TRUE]
                     ELSE [sc EXCEPT !.stray = @ + 1]
         IN  set_digits(next, score \div 10, digit_number + 1)
    ELSE [sc |-> sc, digit_number |-> digit_number]

\* update_score_counter without its second loop, lines 844-847
update_score_counter_without_hiding(gs) ==
    [gs EXCEPT !.score_counter = set_digits(gs.score_counter, gs.score, 0).sc]

update_score_counter(gs) ==
    LET done == set_digits(gs.score_counter, gs.score, 0)
        shown == done.digit_number
    IN  [gs EXCEPT !.score_counter =
            [done.sc EXCEPT !.digits =
                [i \in 1..SCORE_COUNTER_DIGITS |->
                    IF i - 1 >= shown THEN [@[i] EXCEPT !.visible = FALSE] ELSE @[i]]]]

RECURSIVE load_digit_views(_, _)
load_digit_views(digit, i) ==
    IF i < 10
    THEN load_digit_views(add_entity_view_from_file(digit, DigitFile(i)), i + 1)
    ELSE digit

RECURSIVE create_digits(_, _, _, _)
create_digits(gs, x, y, digit_number) ==
    IF digit_number < SCORE_COUNTER_DIGITS
    THEN LET loaded == load_digit_views(gs.score_counter.digits[digit_number + 1], 0)
             digit == [loaded EXCEPT !.visible = TRUE,
                                     !.x = x - (digit_number * (loaded.views[1].width + 1)),
                                     !.y = y]
             g1 == [gs EXCEPT !.score_counter.digits[digit_number + 1] = digit]
         IN  create_digits(register_entity(g1, <<"digits", digit_number + 1>>),
                           x, y, digit_number + 1)
    ELSE gs

create_score_counter(gs, x, y) == update_score_counter(create_digits(gs, x, y, 0))

----------------------------------------------------------------------------
(* main(): the state when the loop is entered *)

\* struct Entity, zero-initialised
ZeroEntity ==
    [x |-> 0, y |-> 0, num_views |-> 0, current_view |-> 0, views |-> <<>>,
     visible |-> FALSE]

\* struct GameState game_state = {}
ZeroGameState ==
    [bird |-> [entity |-> ZeroEntity, velocity |-> 0],
     entity_count |-> 0,
     entities |-> <<>>,
     obstacle_count |-> 0,
     obstacles |-> <<>>,
     press_space_to_start |-> ZeroEntity,
     screen_type |-> TITLE_SCREEN,
     title_text |-> ZeroEntity,
     score |-> 0,
     score_counter |-> [digits |-> [i \in 1..SCORE_COUNTER_DIGITS |-> ZeroEntity],
                        score |-> 0, x |-> 0, y |-> 0, stray |-> 0],
     quit |-> FALSE]

\* The pixel literals of main() (30 rows below the middle, 90 columns apart,
\* 10 rows apart, gaps of 8, 9 and 10 rows, 9 columns from the right edge) are
\* for a screen of 300 x 80; they are reduced here to the model's screen.
InitGameState ==
    LET g0 == ZeroGameState
        title == add_entity_view_from_file(
                    [create_entity EXCEPT !.x = SCREEN_WIDTH \div 2,
                                          !.y = SCREEN_HEIGHT \div 2],
                    "not_flappy_bird.entity")
        g1 == register_entity([g0 EXCEPT !.title_text = title], <<"title_text", 0>>)
        prompt0 == add_entity_view_from_file(create_entity, "press_space_to_start.entity")
        prompt == [prompt0 EXCEPT !.x = 0 - prompt0.views[1].width,
                                  !.y = SCREEN_HEIGHT \div 2 + 3]
        g2 == register_entity([g1 EXCEPT !.press_space_to_start = prompt],
                              <<"press_space_to_start", 0>>)
        g3 == create_obstacle(g2, SCREEN_WIDTH \div 2, SCREEN_HEIGHT \div 2, 1)
        g4 == create_obstacle(g3, SCREEN_WIDTH \div 2 + 3, SCREEN_HEIGHT \div 2 - 1, 1)
        g5 == create_obstacle(g4, SCREEN_WIDTH \div 2 - 3, SCREEN_HEIGHT \div 2 + 1, 2)
        bird == add_entity_view_from_file(
                    add_entity_view_from_file(
                        add_entity_view_from_file(create_entity, "bird_0.entity"),
                        "bird_1.entity"),
                    "bird_2.entity")
        g6 == register_entity([g5 EXCEPT !.bird = [entity |-> bird, velocity |-> 0]],
                              <<"bird", 0>>)
        g7 == create_score_counter([g6 EXCEPT !.score = 0], SCREEN_WIDTH - 2, 1)
    IN  [g7 EXCEPT !.quit = FALSE]

----------------------------------------------------------------------------
(* The game: start_game, end_game, scroll_world, animate_bird, game_tick *)

\* the centre drawn from the whole height of the screen
RandomCentre_whole_height(r) == r % SCREEN_HEIGHT

\* (rand() % (SCREEN_HEIGHT - SCREEN_HEIGHT / 2)) + SCREEN_HEIGHT / 4
RandomCentre(r) == (r % (SCREEN_HEIGHT - SCREEN_HEIGHT \div 2)) + SCREEN_HEIGHT \div 4

\* the bird's start column: 10 of 300 columns in the code
BirdStartX == 1

RECURSIVE place_obstacles(_, _, _)
place_obstacles(gs, r, i) ==
    IF i < gs.obstacle_count
    THEN LET placed == [gs.obstacles[i + 1] EXCEPT
                            !.x = SCREEN_WIDTH \div 4
                                  + ((i * SCREEN_WIDTH) \div gs.obstacle_count),
                            !.y = RandomCentre(r[i + 1]),
                            !.score_collected = FALSE]
         IN  place_obstacles([gs EXCEPT !.obstacles[i + 1] = update_obstacle(placed)],
                             r, i + 1)
    ELSE gs

\* start_game without its loop over the obstacles
start_game_unplaced(gs, r) ==
    update_score_counter(
        [gs EXCEPT !.screen_type = GAME_SCREEN,
                   !.press_space_to_start.visible = FALSE,
                   !.title_text.visible = FALSE,
                   !.bird.entity.x = BirdStartX,
                   !.bird.entity.y = SCREEN_HEIGHT \div 2,
                   !.score = 0])

\* start_game making every gap one row wider as well
start_game_widens_gaps(gs, r) ==
    LET g1 == [gs EXCEPT !.screen_type = GAME_SCREEN,
                         !.press_space_to_start.visible = FALSE,
                         !.title_text.visible = FALSE,
                         !.bird.entity.x = BirdStartX,
                         !.bird.entity.y = SCREEN_HEIGHT \div 2,
                         !.score = 0,
                         !.obstacles = [i \in DOMAIN @ |-> [@[i] EXCEPT !.gap_size = @ + 1]]]
    IN  place_obstacles(update_score_counter(g1), r, 0)

\* r[i + 1] is what rand() returns for obstacle i
start_game(gs, r) ==
    LET g1 == [gs EXCEPT !.screen_type = GAME_SCREEN,
                         !.press_space_to_start.visible = FALSE,
                         !.title_text.visible = FALSE,
                         !.bird.entity.x = BirdStartX,
                         !.bird.entity.y = SCREEN_HEIGHT \div 2,
                         !.score = 0]
    IN  place_obstacles(update_score_counter(g1), r, 0)

\* end_game without line 794
end_game_keeps_score(gs) ==
    [gs EXCEPT !.screen_type = TITLE_SCREEN,
               !.title_text.visible = TRUE,
               !.press_space_to_start.visible = TRUE]

\* end_game setting the quit flag as well
end_game_quits(gs) ==
    [gs EXCEPT !.screen_type = TITLE_SCREEN,
               !.score = 0,
               !.title_text.visible = TRUE,
               !.press_space_to_start.visible = TRUE,
               !.quit = TRUE]

end_game(gs) ==
    [gs EXCEPT !.screen_type = TITLE_SCREEN,
               !.score = 0,
               !.title_text.visible = TRUE,
               !.press_space_to_start.visible = TRUE]

\* the body of scroll_world's loop for obstacle i, then the rest of the loop
RECURSIVE scroll_obstacles(_, _, _)
scroll_obstacles(gs, r, i) ==
    IF i < gs.obstacle_count
    THEN LET g1 == [gs EXCEPT !.obstacles[i + 1].x = @ - 1]
             g2 == IF /\ g1.screen_type = GAME_SCREEN
                      /\ g1.obstacles[i + 1].x < g1.bird.entity.x
                      /\ ~g1.obstacles[i + 1].score_collected
                   THEN [update_score_counter([g1 EXCEPT !.score = @ + 1])
                            EXCEPT !.obstacles[i + 1].score_collected = TRUE]
                   ELSE g1
             g3 == IF g2.obstacles[i + 1].x < -g2.obstacles[i + 1].top_entity.views[1].width
                   THEN [g2 EXCEPT !.obstacles[i + 1].x = SCREEN_WIDTH,
                                   !.obstacles[i + 1].y = RandomCentre(r[i + 1]),
                                   !.obstacles[i + 1].score_collected = FALSE]
                   ELSE g2
         IN  scroll_obstacles([g3 EXCEPT !.obstacles[i + 1] = update_obstacle(@)], r, i + 1)
    ELSE gs

\* scroll_world's loop with the flag of a recycled obstacle left as it was
scroll_world_keeps_flag(gs, r) ==
    LET g1 == scroll_obstacles(gs, r, 0)
    IN  [g1 EXCEPT !.obstacles =
            [i \in 1..g1.obstacle_count |->
                [g1.obstacles[i] EXCEPT !.score_collected =
                    @ \/ gs.obstacles[i].score_collected]]]

\* scroll_world giving one point per call, however many obstacles are passed
scroll_world_one_point(gs, r) ==
    LET g1 == scroll_obstacles(gs, r, 0)
    IN  IF g1.score > gs.score + 1
        THEN update_score_counter([g1 EXCEPT !.score = gs.score + 1])
        ELSE g1

scroll_world(gs, r) ==
    LET g1 == scroll_obstacles(gs, r, 0)
    IN  IF g1.screen_type = TITLE_SCREEN
        THEN LET x == g1.press_space_to_start.x + 1
             IN  [g1 EXCEPT !.press_space_to_start.x =
                    IF x > SCREEN_WIDTH
                    THEN 0 - g1.press_space_to_start.views[1].width
                    ELSE x]
        ELSE g1

\* animate_bird ending the game as well
animate_bird_ends_game(gs) == end_game([gs EXCEPT !.bird.entity = next_entity_view(@)])

animate_bird(gs) == [gs EXCEPT !.bird.entity = next_entity_view(@)]

\* (int) velocity: the fraction is dropped, towards zero
Truncate(v) == IF v >= 0 THEN v \div UNIT ELSE -((-v) \div UNIT)

\* lines 654-675 without the case of lines 670-672
tick_keys_without_escape(gs, held, r) ==
    LET g2 == IF VK_SPACE \in held
              THEN LET s1 == IF gs.screen_type = TITLE_SCREEN
                             THEN start_game(gs, r) ELSE gs
                       s2 == IF s1.bird.velocity > -2 * UNIT
                             THEN [s1 EXCEPT !.bird.velocity = @ - 2 * UNIT] ELSE s1
                   IN  [s2 EXCEPT !.bird.entity = next_entity_view(@)]
              ELSE gs
        g3 == IF VK_LEFT \in held THEN [g2 EXCEPT !.bird.entity.x = @ - 1] ELSE g2
    IN  IF VK_RIGHT \in held THEN [g3 EXCEPT !.bird.entity.x = @ + 1] ELSE g3

\* game_tick, lines 654-675: the keys held, in the order of the loop
tick_keys(gs, held, r) ==
    LET g1 == IF VK_ESCAPE \in held THEN [gs EXCEPT !.quit = TRUE] ELSE gs
        g2 == IF VK_SPACE \in held
              THEN LET s1 == IF g1.screen_type = TITLE_SCREEN
                             THEN start_game(g1, r) ELSE g1
                       s2 == IF s1.bird.velocity > -2 * UNIT
                             THEN [s1 EXCEPT !.bird.velocity = @ - 2 * UNIT] ELSE s1
                   IN  [s2 EXCEPT !.bird.entity = next_entity_view(@)]
              ELSE g1
        g3 == IF VK_LEFT \in held THEN [g2 EXCEPT !.bird.entity.x = @ - 1] ELSE g2
    IN  IF VK_RIGHT \in held THEN [g3 EXCEPT !.bird.entity.x = @ + 1] ELSE g3

\* lines 677-680 without the condition of line 678
tick_gravity_unguarded(gs) ==
    [gs EXCEPT !.bird.velocity = @ + UNIT \div 5]

\* lines 677-680; 0.2 is UNIT / 5
tick_gravity(gs) ==
    IF gs.bird.velocity < UNIT
    THEN [gs EXCEPT !.bird.velocity = @ + UNIT \div 5]
    ELSE gs

\* lines 682-695 without the way back from the right edge
tick_title_without_wrap(gs, a) ==
    IF gs.screen_type = TITLE_SCREEN
    THEN LET g1 == IF gs.bird.entity.y > SCREEN_HEIGHT - SCREEN_HEIGHT \div 4
                   THEN [gs EXCEPT !.bird.velocity =
                            @ - (3 * UNIT + ((a % 10) * UNIT) \div 8)]
                   ELSE gs
         IN  [g1 EXCEPT !.bird.entity.x = @ + 1]
    ELSE gs

\* lines 682-695; a is what rand() returns
tick_title(gs, a) ==
    IF gs.screen_type = TITLE_SCREEN
    THEN LET g1 == IF gs.bird.entity.y > SCREEN_HEIGHT - SCREEN_HEIGHT \div 4
                   THEN [gs EXCEPT !.bird.velocity =
                            @ - (3 * UNIT + ((a % 10) * UNIT) \div 8)]
                   ELSE gs
         IN  IF g1.bird.entity.x < SCREEN_WIDTH
             THEN [g1 EXCEPT !.bird.entity.x = @ + 1]
             ELSE [g1 EXCEPT !.bird.entity.x = 0, !.bird.entity.y = 0]
    ELSE gs

\* the conditions of lines 700-701 and 707-708
HitsObstacle(gs) ==
    \E i \in 1..gs.obstacle_count :
        \/ check_collision(gs.bird.entity, gs.obstacles[i].top_entity)
        \/ check_collision(gs.bird.entity, gs.obstacles[i].bottom_entity)

OutOfScreen(gs) ==
    \/ gs.bird.entity.x < 0
    \/ gs.bird.entity.x > SCREEN_WIDTH
    \/ gs.bird.entity.y < 0
    \/ gs.bird.entity.y > SCREEN_HEIGHT

\* lines 697-711 without the check of the screen's edges
tick_checks_collision_only(gs) ==
    IF gs.screen_type = GAME_SCREEN /\ HitsObstacle(gs) THEN end_game(gs) ELSE gs

\* lines 697-711
tick_checks(gs) ==
    IF gs.screen_type = GAME_SCREEN
    THEN LET g1 == IF HitsObstacle(gs) THEN end_game(gs) ELSE gs
         IN  IF OutOfScreen(g1) THEN end_game(g1) ELSE g1
    ELSE gs

\* line 713
tick_move(gs) == [gs EXCEPT !.bird.entity.y = @ + Truncate(gs.bird.velocity)]

\* the state when game_tick reaches line 697
tick_before_checks(gs, held, r) == tick_title(tick_gravity(tick_keys(gs, held, r)), r[1])

game_tick(gs, held, r) == tick_move(tick_checks(tick_before_checks(gs, held, r)))

----------------------------------------------------------------------------
(* The display: render_next_frame, update_display, cls *)

BLANK == " "
CR == "\r"
Columns == 0..(SCREEN_WIDTH - 1)
Rows == 0..(SCREEN_HEIGHT - 1)

\* char frame[SCREEN_WIDTH][SCREEN_HEIGHT] holding c everywhere
FilledFrame(c) == [x \in Columns |-> [y \in Rows |-> c]]

\* The loop of render_entity, lines 432-445, character by character:
\* display[i] of the code is display[i + 1] here. A separator moves the cursor
\* to the start column of the next row, any other character is put at the
\* cursor, which then moves one column right.
IsSeparator(view, i) == view.display[i] = NL \/ view.display[i] = CR

\* the characters the loop visits that are not separators
Glyphs(view) == { i \in 1..(view.display_size - 1) : ~IsSeparator(view, i) }

\* current_y - start_y when the loop is at character i
RowOf(view, i) == Cardinality({ j \in 1..(i - 1) : IsSeparator(view, j) })

\* current_x - start_x when the loop is at character i
ColumnOf(view, i) ==
    Cardinality({ j \in 1..(i - 1) : \A k \in j..(i - 1) : ~IsSeparator(view, k) })

\* the characters that land on cell (x, y); the last one stays
Landing(entity, x, y) ==
    LET view == CurrentView(entity)
        start_x == entity.x - view.origin_x
        start_y == entity.y - view.origin_y
    IN  { i \in Glyphs(view) :
            /\ start_x + ColumnOf(view, i) = x
            /\ start_y + RowOf(view, i) = y }

Last(S) == CHOOSE i \in S : \A j \in S : j <= i

render_entity(entity, frame) ==
    IF ~entity.visible
    THEN frame
    ELSE [x \in Columns |-> [y \in Rows |->
            LET landing == Landing(entity, x, y)
            IN  IF landing # {}
                THEN CurrentView(entity).display[Last(landing)]
                ELSE frame[x][y]]]

\* lines 373-376 from the last registered entity to the first
RECURSIVE render_entities_backwards(_, _, _)
render_entities_backwards(frame, gs, i) ==
    IF i < gs.entity_count
    THEN render_entities_backwards(
            render_entity(Deref(gs, gs.entities[gs.entity_count - i]), frame), gs, i + 1)
    ELSE frame

RECURSIVE render_entities(_, _, _)
render_entities(frame, gs, i) ==
    IF i < gs.entity_count
    THEN render_entities(render_entity(Deref(gs, gs.entities[i + 1]), frame), gs, i + 1)
    ELSE frame

\* lines 382-389 with the two loops in the other order
draw_border_columns_first(frame) ==
    [x \in Columns |-> [y \in Rows |->
        IF y = 0 \/ y = SCREEN_HEIGHT - 1 THEN "="
        ELSE IF x = 0 \/ x = SCREEN_WIDTH - 1 THEN "|"
        ELSE frame[x][y]]]

\* lines 382-389: the rows first, then the columns
draw_border(frame) ==
    [x \in Columns |-> [y \in Rows |->
        IF x = 0 \/ x = SCREEN_WIDTH - 1 THEN "|"
        ELSE IF y = 0 \/ y = SCREEN_HEIGHT - 1 THEN "="
        ELSE frame[x][y]]]

render_next_frame(ds, gs) ==
    [ds EXCEPT !.next_frame = draw_border(render_entities(FilledFrame(BLANK), gs, 0))]

\* The loops of update_display, lines 399-407: the cells in the order they
\* are visited, row by row
CellsInOrder ==
    [k \in 1..(SCREEN_WIDTH * SCREEN_HEIGHT) |->
        <<(k - 1) % SCREEN_WIDTH, (k - 1) \div SCREEN_WIDTH>>]

\* line 401
Differs(ds, cell) == ds.current_frame[cell[1]][cell[2]] # ds.next_frame[cell[1]][cell[2]]

\* update_display writing every cell, equal or not
flush_cells_every_cell(ds, term) ==
    [ds |-> [ds EXCEPT !.current_frame = ds.next_frame],
     terminal |-> ds.next_frame,
     writes |-> [k \in 1..Len(CellsInOrder) |->
                    <<CellsInOrder[k][1], CellsInOrder[k][2],
                      ds.next_frame[CellsInOrder[k][1]][CellsInOrder[k][2]]>>]]

\* update_display without line 404, the copy into current_frame
flush_cells_without_copy(ds, term) ==
    LET changed == SelectSeq(CellsInOrder, LAMBDA cell : Differs(ds, cell))
    IN  [ds |-> ds,
         terminal |-> [x \in Columns |-> [y \in Rows |->
                        IF Differs(ds, <<x, y>>) THEN ds.next_frame[x][y]
                        ELSE term[x][y]]],
         writes |-> [k \in 1..Len(changed) |->
                        <<changed[k][1], changed[k][2],
                          ds.next_frame[changed[k][1]][changed[k][2]]>>]]

\* lines 402-404 for every cell that differs: set_cursor(x, y) and
\* printf("%c", c) put c in cell (x, y) of the terminal
flush_cells(ds, term) ==
    LET changed == SelectSeq(CellsInOrder, LAMBDA cell : Differs(ds, cell))
    IN  [ds |-> [ds EXCEPT !.current_frame =
                    [x \in Columns |-> [y \in Rows |->
                        IF Differs(ds, <<x, y>>) THEN ds.next_frame[x][y]
                        ELSE ds.current_frame[x][y]]]],
         terminal |-> [x \in Columns |-> [y \in Rows |->
                        IF Differs(ds, <<x, y>>) THEN ds.next_frame[x][y]
                        ELSE term[x][y]]],
         writes |-> [k \in 1..Len(changed) |->
                        <<changed[k][1], changed[k][2],
                          ds.next_frame[changed[k][1]][changed[k][2]]>>]]

\* millis() is the time since 1970 in milliseconds; of a timestamp the model
\* keeps whether it is still 0 or was read from the clock (1)
CLOCK == 1

update_display(ds, term) ==
    LET st == flush_cells(ds, term)
    IN  [st EXCEPT !.ds.last_frame_time = CLOCK]

\* cls(): the console filled with spaces
cls == FilledFrame(BLANK)

\* "Quitting game. Thanks for playing!", printed at the top left
Farewell ==
    <<"Q", "u", "i", "t", "t", "i", "n", "g", " ", "g", "a", "m", "e", ".", " ",
      "T", "h", "a", "n", "k", "s", " ", "f", "o", "r", " ",
      "p", "l", "a", "y", "i", "n", "g", "!">>

print_farewell(term) ==
    [x \in Columns |-> [y \in Rows |->
        IF y = 0 /\ x < Len(Farewell) THEN Farewell[x + 1] ELSE term[x][y]]]

----------------------------------------------------------------------------
(* main(): the loop *)

\* struct PeriodicTimer periodic_timers[], lines 235-244
InitTimers ==
    << [period |-> 50, last_trigger_time |-> 0, callback |-> "scroll_world"],
       [period |-> 250, last_trigger_time |-> 0, callback |-> "animate_bird"],
       [period |-> 20, last_trigger_time |-> 0, callback |-> "game_tick"] >>

\* the state at line 253, when the loop is first entered
Init ==
    /\ game_state = InitGameState
    /\ display_state = [current_frame |-> FilledFrame(NUL),
                        next_frame |-> FilledFrame(NUL),
                        last_frame_time |-> 0]
    /\ terminal = cls
    /\ writes = <<>>
    /\ periodic_timers = InitTimers
    /\ iteration = 0
    /\ pc = "loop"
    /\ entity1 = Unused
    /\ entity2 = Unused
    /\ collision = FALSE
    /\ files = Unused
    /\ keys = Unused
    /\ clock = Unused
    /\ timer_log = Unused

\* the sequences of rand() results, one per obstacle, that differ only where
\* a result is used
RandSeqs(used) ==
    { r \in [1..game_state.obstacle_count -> RandValues] :
        \A i \in 1..game_state.obstacle_count : ~used[i] => r[i] = 0 }

\* the loop's body entered without the test of line 253
RenderNextFrame_after_quit ==
    /\ pc = "loop"
    /\ iteration < MaxIterations
    /\ iteration' = iteration + 1
    /\ display_state' = render_next_frame(display_state, game_state)
    /\ pc' = "update_display"
    /\ writes' = <<>>
    /\ UNCHANGED <<game_state, terminal, periodic_timers, entity1, entity2, collision, clock, timer_log, keys, files>>

\* line 253 and 255: the loop is entered and a frame is due. A timestamp of 0
\* is always more than the period ago.
RenderNextFrame ==
    /\ pc = "loop"
    /\ ~game_state.quit
    /\ iteration < MaxIterations
    /\ iteration' = iteration + 1
    /\ display_state' = render_next_frame(display_state, game_state)
    /\ pc' = "update_display"
    /\ writes' = <<>>
    /\ UNCHANGED <<game_state, terminal, periodic_timers, entity1, entity2, collision, clock, timer_log, keys, files>>

\* line 257
UpdateDisplay ==
    /\ pc = "update_display"
    /\ LET st == update_display(display_state, terminal)
       IN  /\ display_state' = st.ds
           /\ terminal' = st.terminal
           /\ writes' = st.writes
    /\ pc' = "timer_0"
    /\ UNCHANGED <<game_state, periodic_timers, iteration, entity1, entity2, collision, clock, timer_log, keys, files>>

\* line 255: the loop is entered and no frame is due
SkipFrame ==
    /\ pc = "loop"
    /\ ~game_state.quit
    /\ iteration < MaxIterations
    /\ display_state.last_frame_time # 0
    /\ iteration' = iteration + 1
    /\ pc' = "timer_0"
    /\ writes' = <<>>
    /\ UNCHANGED <<game_state, display_state, terminal, periodic_timers,
                   entity1, entity2, collision, clock, timer_log, keys, files>>

\* run_periodic_timers at timer i (0, 1, 2): where the program goes next
AfterTimer(i) == IF i + 1 < Len(periodic_timers) THEN "timer_" \o ToString(i + 1) ELSE "loop"

AtTimer(i) == pc = "timer_" \o ToString(i)

Triggered(i) == [periodic_timers EXCEPT ![i + 1].last_trigger_time = CLOCK]

\* line 724: timer i is not due
SkipTimer(i) ==
    /\ AtTimer(i)
    /\ periodic_timers[i + 1].last_trigger_time # 0
    /\ pc' = AfterTimer(i)
    /\ writes' = <<>>
    /\ UNCHANGED <<game_state, display_state, terminal, periodic_timers, iteration,
                   entity1, entity2, collision, clock, timer_log, keys, files>>

\* lines 725-726 with callback scroll_world
ScrollWorld ==
    /\ AtTimer(0)
    /\ \E r \in RandSeqs([i \in 1..game_state.obstacle_count |->
                game_state.obstacles[i].x - 1
                    < -game_state.obstacles[i].top_entity.views[1].width]) :
            game_state' = scroll_world(game_state, r)
    /\ periodic_timers' = Triggered(0)
    /\ pc' = AfterTimer(0)
    /\ writes' = <<>>
    /\ UNCHANGED <<display_state, terminal, iteration, entity1, entity2, collision, clock, timer_log, keys, files>>

\* lines 725-726 with callback animate_bird
AnimateBird ==
    /\ AtTimer(1)
    /\ game_state' = animate_bird(game_state)
    /\ periodic_timers' = Triggered(1)
    /\ pc' = AfterTimer(1)
    /\ writes' = <<>>
    /\ UNCHANGED <<display_state, terminal, iteration, entity1, entity2, collision, clock, timer_log, keys, files>>

\* lines 725-726 with callback game_tick; held is what GetAsyncKeyState reports
GameTick ==
    /\ AtTimer(2)
    /\ \E held \in SUBSET Keys :
        \E r \in RandSeqs([i \in 1..game_state.obstacle_count |->
                    \/ VK_SPACE \in held /\ game_state.screen_type = TITLE_SCREEN
                    \/ i = 1 /\ game_state.screen_type = TITLE_SCREEN]) :
            game_state' = game_tick(game_state, held, r)
    /\ periodic_timers' = Triggered(2)
    /\ pc' = AfterTimer(2)
    /\ writes' = <<>>
    /\ UNCHANGED <<display_state, terminal, iteration, entity1, entity2, collision, clock, timer_log, keys, files>>

\* lines 253 and 266-272: quit is set, the loop is left
Exit ==
    /\ pc = "loop"
    /\ game_state.quit
    /\ terminal' = print_farewell(cls)
    /\ pc' = "exited"
    /\ writes' = <<>>
    /\ UNCHANGED <<game_state, display_state, periodic_timers, iteration,
                   entity1, entity2, collision, clock, timer_log, keys, files>>

Next ==
    \/ RenderNextFrame
    \/ UpdateDisplay
    \/ SkipFrame
    \/ \E i \in 0..2 : SkipTimer(i)
    \/ ScrollWorld
    \/ AnimateBird
    \/ GameTick
    \/ Exit

Spec == Init /\ [][Next]_vars

----------------------------------------------------------------------------
(* game_tick, start_game and end_game: the claims *)

\* every sequence of rand() results, one per obstacle
AllRands == [1..game_state.obstacle_count -> RandValues]

\* what LEFT and RIGHT do to the bird's column, lines 656-661
Arrows(held) ==
    (IF VK_RIGHT \in held THEN 1 ELSE 0) - (IF VK_LEFT \in held THEN 1 ELSE 0)

\* the state start_game leaves
StartGamePost(gs) ==
    /\ gs.screen_type = GAME_SCREEN
    /\ gs.score = 0
    /\ \A k \in 1..SCORE_COUNTER_DIGITS : ~gs.score_counter.digits[k].visible
    /\ ~gs.title_text.visible
    /\ ~gs.press_space_to_start.visible
    /\ gs.bird.entity.x = BirdStartX
    /\ gs.bird.entity.y = SCREEN_HEIGHT \div 2
    /\ \A i \in 0..(gs.obstacle_count - 1) :
        LET o == gs.obstacles[i + 1]
        IN  /\ o.x = SCREEN_WIDTH \div 4 + (i * SCREEN_WIDTH) \div gs.obstacle_count
            /\ o.y >= SCREEN_HEIGHT \div 4
            /\ o.y < (3 * SCREEN_HEIGHT) \div 4
            /\ ~o.score_collected
            /\ o.top_entity.x = o.x
            /\ o.bottom_entity.x = o.x
            /\ o.top_entity.y = o.y - o.gap_size
            /\ o.bottom_entity.y = o.y + o.gap_size

\* C1: when game_tick runs in Title mode with the space key held, start_game
\* is applied: right after it the mode is Playing, the score is 0, every
\* digit, the title and the prompt are invisible, the bird is at the start
\* point, and every obstacle i is at x = W/4 + i*W/obstacle_count with a y in
\* [H/4, 3H/4), score_collected false and both parts moved with it. The tick
\* goes on from that state: the arrow keys move the bird from the start
\* column, and the obstacles and the digits end the tick as start_game left
\* them.
C1_FlapInTitleStartsGame ==
    (AtTimer(2) /\ game_state.screen_type = TITLE_SCREEN) =>
        \A held \in SUBSET Keys : \A r \in AllRands :
            VK_SPACE \in held =>
                LET started == start_game(game_state, r)
                    after == game_tick(game_state, held, r)
                IN  /\ StartGamePost(started)
                    /\ after.obstacles = started.obstacles
                    /\ after.score_counter = started.score_counter
                    /\ after.score = 0
                    /\ after.bird.entity.x = BirdStartX + Arrows(held)

\* C1 witness: the first tick ran in Title mode with space held and no arrow
\* key; the game is on, the bird in the start column, and obstacle 1 got its
\* centre from a rand() result other than 0.
C1_Witness ==
    /\ pc = "loop"
    /\ iteration = 1
    /\ game_state.screen_type = GAME_SCREEN
    /\ game_state.bird.entity.x = BirdStartX
    /\ game_state.obstacles[2].y = RandomCentre(1)
    /\ ~game_state.title_text.visible

\* C2: when game_tick reaches its checks in Playing mode and the bird's box
\* collides with a part of an obstacle, or the bird is outside
\* [0,SCREEN_WIDTH] x [0,SCREEN_HEIGHT], the tick ends in Title mode with
\* score 0 and the title and the prompt visible.
C2_DetectionEndsGame ==
    AtTimer(2) =>
        \A held \in SUBSET Keys : \A r \in AllRands :
            LET before == tick_before_checks(game_state, held, r)
                after == game_tick(game_state, held, r)
            IN  (/\ before.screen_type = GAME_SCREEN
                 /\ HitsObstacle(before) \/ OutOfScreen(before))
                    => /\ after.screen_type = TITLE_SCREEN
                       /\ after.score = 0
                       /\ after.title_text.visible
                       /\ after.press_space_to_start.visible

\* C2 witness: the game was started in the first tick, the obstacles scrolled
\* once, and the second tick ended the game with the bird inside the screen,
\* that is by a collision.
C2_Witness ==
    /\ pc = "loop"
    /\ iteration = 2
    /\ game_state.screen_type = TITLE_SCREEN
    /\ game_state.obstacles[1].x = SCREEN_WIDTH \div 4 - 1
    /\ ~OutOfScreen(game_state)
    /\ game_state.score = 0
    /\ game_state.title_text.visible
    /\ game_state.press_space_to_start.visible

\* C3: the mode changes only in a step taken at the game_tick timer, so the
\* steps of render_next_frame, update_display, scroll_world and animate_bird
\* leave it alone; and whatever keys are held and whatever rand() returns,
\* a game_tick takes Playing to Title only when its checks find a collision
\* or the bird out of the screen, and Title to Playing only when space is
\* held.
C3_ModeChangesOnlyInGameTick ==
    /\ [][ game_state'.screen_type # game_state.screen_type
            => AtTimer(2) /\ periodic_timers' = Triggered(2) ]_vars
    /\ [](AtTimer(2) =>
            \A held \in SUBSET Keys : \A r \in AllRands :
                LET before == tick_before_checks(game_state, held, r)
                    after == game_tick(game_state, held, r)
                IN  /\ (/\ game_state.screen_type = GAME_SCREEN
                        /\ after.screen_type = TITLE_SCREEN)
                            => HitsObstacle(before) \/ OutOfScreen(before)
                    /\ (/\ game_state.screen_type = TITLE_SCREEN
                        /\ after.screen_type = GAME_SCREEN)
                            => VK_SPACE \in held)

\* C3 witness: the mode went to Playing in the first tick, stayed there while
\* the second iteration rendered, scrolled and animated, and went back to
\* Title in the second tick, which found the bird left of the screen.
C3_Witness ==
    /\ pc = "loop"
    /\ iteration = 2
    /\ game_state.screen_type = TITLE_SCREEN
    /\ game_state.bird.entity.x < 0
    /\ game_state.obstacles[1].x = SCREEN_WIDTH \div 4 - 1

\* C14: the loop is left only with the quit flag set; the flag is set only
\* in a step at the game_tick timer, and a game_tick sets it exactly when the
\* escape key is held, whatever else is held and whatever rand() returns;
\* no step clears it.
C14_QuitOnlyByEscape ==
    /\ [](pc = "exited" => game_state.quit)
    /\ [][ /\ game_state.quit => game_state'.quit
           /\ (~game_state.quit /\ game_state'.quit)
                => AtTimer(2) /\ periodic_timers' = Triggered(2) ]_vars
    /\ [](AtTimer(2) =>
            \A held \in SUBSET Keys : \A r \in AllRands :
                game_tick(game_state, held, r).quit
                    = (game_state.quit \/ VK_ESCAPE \in held))

\* C14 witness: the loop was left from a game that was being played, after a
\* second tick.
C14_Witness ==
    /\ pc = "exited"
    /\ iteration = 2
    /\ game_state.quit
    /\ game_state.screen_type = GAME_SCREEN

----------------------------------------------------------------------------
(* update_display and the terminal: the claims *)

Cells == Columns \X Rows

\* C8: update_display issues exactly one positioned write for each cell where
\* next_frame differs from current_frame, the write carrying next_frame's
\* character, and none for a cell where they are equal; when it returns,
\* current_frame equals next_frame in every cell.
C8_OneWritePerDifferingCell ==
    pc = "update_display" =>
        LET st == update_display(display_state, terminal)
            differing == { cell \in Cells : Differs(display_state, cell) }
            WritesTo(cell) ==
                { k \in 1..Len(st.writes) :
                    st.writes[k][1] = cell[1] /\ st.writes[k][2] = cell[2] }
        IN  /\ \A cell \in differing :
                /\ Cardinality(WritesTo(cell)) = 1
                /\ \A k \in WritesTo(cell) :
                    st.writes[k][3] = display_state.next_frame[cell[1]][cell[2]]
            /\ \A cell \in Cells \ differing : WritesTo(cell) = {}
            /\ Len(st.writes) = Cardinality(differing)
            /\ \A cell \in Cells :
                st.ds.current_frame[cell[1]][cell[2]]
                    = display_state.next_frame[cell[1]][cell[2]]

\* C8 witness: update_display has returned from a frame in which some cells
\* differed and some did not.
C8_Witness ==
    /\ pc = "timer_0"
    /\ Len(writes) > 0
    /\ Len(writes) < SCREEN_WIDTH * SCREEN_HEIGHT
    /\ display_state.current_frame = display_state.next_frame

\* every cell of current_frame is the character the terminal shows there
FrameOnTerminal ==
    \A cell \in Cells :
        display_state.current_frame[cell[1]][cell[2]] = terminal[cell[1]][cell[2]]

\* C9 as stated: in every state from the first cls() on, current_frame is
\* what the terminal shows. This formula is violated: cls() leaves spaces on
\* the terminal while current_frame is still zeroed.
C9_FrameOnTerminalAlways == FrameOnTerminal

\* C9 amended: from the return of the first update_display until the loop is
\* left, every cell of current_frame is the character the terminal shows.
C9_FrameOnTerminalWhileRunning ==
    (display_state.last_frame_time # 0 /\ pc # "exited") => FrameOnTerminal

\* C9 witness: in the second iteration a new frame that differs from the one
\* on the terminal is rendered and about to be flushed.
C9_Witness ==
    /\ pc = "update_display"
    /\ iteration = 2
    /\ display_state.last_frame_time # 0
    /\ display_state.next_frame # display_state.current_frame
    /\ FrameOnTerminal

----------------------------------------------------------------------------
(* check_collision on bounded inputs *)

\* The entities check_collision is tried on: two views each, the second one
\* active, so that the box is that of the active view and not of views[0].
DecoyView == EntityView(1, 1, 0, 0, <<"?">>)

CollisionEntities ==
    { [x |-> px, y |-> py, num_views |-> 2, current_view |-> 1,
       views |-> <<DecoyView, EntityView(w, h, ox, oy, <<>>)>>,
       visible |-> TRUE] :
        px \in 0..MaxPos, py \in 0..MaxPos, w \in 0..MaxSize, h \in 0..MaxSize,
        ox \in 0..MaxPos, oy \in 0..MaxPos }

InitCollision ==
    /\ entity1 \in CollisionEntities
    /\ entity2 \in CollisionEntities
    /\ collision = FALSE
    /\ files = Unused
    /\ keys = Unused
    /\ clock = Unused
    /\ timer_log = Unused
    /\ pc = "check_collision"
    /\ game_state = Unused
    /\ display_state = Unused
    /\ terminal = Unused
    /\ writes = Unused
    /\ periodic_timers = Unused
    /\ iteration = 0

CheckCollision ==
    /\ pc = "check_collision"
    /\ collision' = check_collision(entity1, entity2)
    /\ pc' = "check_collision_done"
    /\ UNCHANGED <<game_state, display_state, terminal, writes, periodic_timers, iteration,
                   entity1, entity2, clock, timer_log, keys, files>>

NextCollision == CheckCollision

SpecCollision == InitCollision /\ [][NextCollision]_vars

----------------------------------------------------------------------------
(* check_collision: the claims *)

\* lines 768-771: the top left corner of the active view's box
Left(entity) == entity.x - CurrentView(entity).origin_x

Top(entity) == entity.y - CurrentView(entity).origin_y

\* lines 774-777
Width(entity) == CurrentView(entity).width

Height(entity) == CurrentView(entity).height

\* The cells of the half-open box [x-ox, x-ox+w) x [y-oy, y-oy+h) of the
\* active view
BoxCells(entity) ==
    (Left(entity)..(Left(entity) + Width(entity) - 1))
        \X (Top(entity)..(Top(entity) + Height(entity) - 1))

BoxesIntersect(e1, e2) == BoxCells(e1) \cap BoxCells(e2) # {}

CollisionChecked == pc = "check_collision_done"

\* C4: check_collision returns true exactly when the half-open bounding boxes
\* of the two active views have a cell in common. The code does not do this:
\* this formula is violated.
C4_ExactlyWhenBoxesIntersect ==
    CollisionChecked => (collision = BoxesIntersect(entity1, entity2))

\* C5: check_collision is symmetric, the result for (entity1, entity2) is the
\* result for (entity2, entity1).
C5_Symmetric ==
    CollisionChecked => (collision = check_collision(entity2, entity1))

\* C5 witness: a collision was found between two different entities, the
\* first one left of and above the second one.
C5_Witness ==
    /\ CollisionChecked
    /\ collision
    /\ Left(entity1) < Left(entity2)
    /\ Top(entity1) < Top(entity2)

\* C6: an entity whose active view has width 0 or height 0 collides with
\* nothing. The code does not do this: this formula is violated.
C6_EmptyBoxNeverCollides ==
    (/\ CollisionChecked
     /\ \E e \in {entity1, entity2} : Width(e) = 0 \/ Height(e) = 0)
        => ~collision

\* Two boxes that touch edge to edge on the x axis, or on the y axis
TouchX(e1, e2) ==
    \/ Left(e1) + Width(e1) = Left(e2)
    \/ Left(e2) + Width(e2) = Left(e1)

TouchY(e1, e2) ==
    \/ Top(e1) + Height(e1) = Top(e2)
    \/ Top(e2) + Height(e2) = Top(e1)

\* The boxes of the example: [0,10)x[0,10) and [10,20)x[0,10)
BoxEntity(x, y, w, h) ==
    [x |-> x, y |-> y, num_views |-> 1, current_view |-> 0,
     views |-> <<EntityView(w, h, 0, 0, <<>>)>>, visible |-> TRUE]

\* C7: two boxes that touch edge to edge on one axis do not collide, however
\* they overlap on the other axis; [0,10)x[0,10) against [10,20)x[0,10)
\* gives false, in both orders.
C7_TouchingBoxesDoNotCollide ==
    /\ (CollisionChecked /\ (TouchX(entity1, entity2) \/ TouchY(entity1, entity2)))
            => ~collision
    /\ ~check_collision(BoxEntity(0, 0, 10, 10), BoxEntity(10, 0, 10, 10))
    /\ ~check_collision(BoxEntity(10, 0, 10, 10), BoxEntity(0, 0, 10, 10))

\* C7 witness: entity1's right edge is entity2's left edge, both boxes have
\* cells, and on the y axis entity2 starts inside entity1.
C7_Witness ==
    /\ CollisionChecked
    /\ Width(entity1) > 0 /\ Width(entity2) > 0
    /\ Left(entity1) + Width(entity1) = Left(entity2)
    /\ Top(entity1) < Top(entity2)
    /\ Top(entity2) < Top(entity1) + Height(entity1)
    /\ Height(entity2) > 0
    /\ ~collision

----------------------------------------------------------------------------
(* update_score_counter on bounded scores *)

\* The part of game_state that update_score_counter reads and writes, as it
\* is in the first game at a score of p: the digits of p showing, the other
\* digit entities as create_score_counter left them.
ScoreState(p) ==
    update_score_counter([score |-> p, score_counter |-> InitGameState.score_counter])

InitScore ==
    /\ game_state \in { ScoreState(p) : p \in 0..MaxScore }
    /\ pc = "playing"
    /\ iteration = 0
    /\ display_state = Unused
    /\ terminal = Unused
    /\ writes = Unused
    /\ periodic_timers = Unused
    /\ entity1 = Unused
    /\ entity2 = Unused
    /\ collision = FALSE
    /\ files = Unused
    /\ keys = Unused
    /\ clock = Unused
    /\ timer_log = Unused

\* scroll_world, lines 618-622: an obstacle is passed
ScorePoint ==
    /\ pc # "title"
    /\ iteration < MaxScoreSteps
    /\ game_state.score < MaxScore
    /\ game_state' = update_score_counter([game_state EXCEPT !.score = @ + 1])
    /\ pc' = "updated"
    /\ iteration' = iteration + 1
    /\ UNCHANGED <<display_state, terminal, writes, periodic_timers,
                   entity1, entity2, collision, clock, timer_log, keys, files>>

\* end_game, line 794: the score is zeroed, the counter is not updated
EndGame ==
    /\ pc # "title"
    /\ iteration < MaxScoreSteps
    /\ game_state' = [game_state EXCEPT !.score = 0]
    /\ pc' = "title"
    /\ iteration' = iteration + 1
    /\ UNCHANGED <<display_state, terminal, writes, periodic_timers,
                   entity1, entity2, collision, clock, timer_log, keys, files>>

\* start_game, lines 746-747
StartGame ==
    /\ pc = "title"
    /\ iteration < MaxScoreSteps
    /\ game_state' = update_score_counter([game_state EXCEPT !.score = 0])
    /\ pc' = "updated"
    /\ iteration' = iteration + 1
    /\ UNCHANGED <<display_state, terminal, writes, periodic_timers,
                   entity1, entity2, collision, clock, timer_log, keys, files>>

NextScore == ScorePoint \/ EndGame \/ StartGame

SpecScore == InitScore /\ [][NextScore]_vars

\* the number of decimal digits of s >= 1
NumDigits(s) ==
    CHOOSE n \in 1..(SCORE_COUNTER_DIGITS + 1) : 10^(n - 1) <= s /\ s < 10^n

\* C10: after update_score_counter at a score s with 1 <= s <= 99999, digit
\* entity i (0 the least significant) is visible with active view
\* (s / 10^i) mod 10 for every i below the number of decimal digits of s, and
\* every other digit entity is invisible; at s = 0 every digit entity is
\* invisible.
C10_DigitsShowScore ==
    pc = "updated" =>
        LET s == game_state.score
            digits == game_state.score_counter.digits
        IN  /\ (1 <= s /\ s <= 10^SCORE_COUNTER_DIGITS - 1) =>
                \A i \in 0..(SCORE_COUNTER_DIGITS - 1) :
                    IF i < NumDigits(s)
                    THEN /\ digits[i + 1].visible
                         /\ digits[i + 1].current_view = (s \div 10^i) % 10
                    ELSE ~digits[i + 1].visible
            /\ s = 0 => \A i \in 0..(SCORE_COUNTER_DIGITS - 1) : ~digits[i + 1].visible

\* C10 witness: the counter was updated at the score 1234; the digits 0 to 3
\* show 4, 3, 2, 1 and digit 4 is invisible.
C10_Witness ==
    /\ pc = "updated"
    /\ game_state.score = 1234
    /\ [i \in 1..4 |-> game_state.score_counter.digits[i].current_view]
            = <<4, 3, 2, 1>>
    /\ \A i \in 1..4 : game_state.score_counter.digits[i].visible
    /\ ~game_state.score_counter.digits[5].visible

\* the score display shows gs.score: the digit entities at or beyond the
\* number of decimal digits of the score are invisible (a score of 0 has no
\* digit), and a visible digit entity's active view is that digit of the score
DisplayAgrees(gs) ==
    LET s == gs.score
        count == IF s = 0 THEN 0 ELSE NumDigits(s)
    IN  \A i \in 0..(SCORE_COUNTER_DIGITS - 1) :
            LET digit == gs.score_counter.digits[i + 1]
            IN  /\ i >= count => ~digit.visible
                /\ digit.visible => digit.current_view = (s \div 10^i) % 10

\* C11: in every state between the operations that touch the score, the
\* score display agrees with game_state.score. The code does not keep this:
\* end_game zeroes the score and leaves the digits showing, so this formula
\* is violated.
C11_DisplayAgreesWithScore == game_state.score <= MaxScore => DisplayAgrees(game_state)

----------------------------------------------------------------------------
(* scroll_world on bounded obstacle positions *)

\* The columns an obstacle is at when scroll_world is called: from the last
\* column before it is recycled (minus the width of obstacle_top) to just
\* right of the bird's start column, and the column it is recycled to.
ScrollColumns == ((0 - Asset("obstacle_top.entity").width)..(BirdStartX + 1))
                    \cup {SCREEN_WIDTH}

\* game_state on the title screen, or in a game just started, with the
\* obstacles at the columns xs and their flags as in flags
ScrollState(mode, xs, flags) ==
    LET base == IF mode = TITLE_SCREEN THEN InitGameState
                ELSE start_game(InitGameState,
                                [i \in 1..InitGameState.obstacle_count |-> i % (RAND_MAX + 1)])
    IN  [base EXCEPT !.obstacles =
            [i \in 1..base.obstacle_count |->
                update_obstacle([base.obstacles[i] EXCEPT !.x = xs[i],
                                                          !.score_collected = flags[i]])]]

InitScroll ==
    /\ game_state \in
        { ScrollState(mode, xs, flags) :
            mode \in {TITLE_SCREEN, GAME_SCREEN},
            xs \in [1..InitGameState.obstacle_count -> ScrollColumns],
            flags \in [1..InitGameState.obstacle_count -> BOOLEAN] }
    /\ pc = "scroll_world"
    /\ iteration = 0
    /\ display_state = Unused
    /\ terminal = Unused
    /\ writes = Unused
    /\ periodic_timers = Unused
    /\ entity1 = Unused
    /\ entity2 = Unused
    /\ collision = FALSE
    /\ files = Unused
    /\ keys = Unused
    /\ clock = Unused
    /\ timer_log = Unused

\* the obstacles scroll_world will recycle
Recycled(gs, i) ==
    gs.obstacles[i].x - 1 < 0 - gs.obstacles[i].top_entity.views[1].width

CallScrollWorld ==
    /\ pc = "scroll_world"
    /\ \E r \in RandSeqs([i \in 1..game_state.obstacle_count |-> Recycled(game_state, i)]) :
            game_state' = scroll_world(game_state, r)
    /\ pc' = "scroll_world_done"
    /\ UNCHANGED <<display_state, terminal, writes, periodic_timers, iteration,
                   entity1, entity2, collision, clock, timer_log, keys, files>>

NextScroll == CallScrollWorld

SpecScroll == InitScroll /\ [][NextScroll]_vars

\* C12: a scroll_world call, in Title and in Playing alike, moves every
\* obstacle one column left; an obstacle whose new x is less than minus the
\* width of its top part's view goes to x = SCREEN_WIDTH, gets a y in
\* [SCREEN_HEIGHT/4, 3*SCREEN_HEIGHT/4) and has score_collected cleared; any
\* other obstacle keeps its y, and its flag is not cleared.
C12_ScrollMovesAndRecycles ==
    pc = "scroll_world" =>
        \A r \in AllRands :
            LET after == scroll_world(game_state, r)
            IN  \A i \in 1..game_state.obstacle_count :
                    LET old == game_state.obstacles[i]
                        new == after.obstacles[i]
                    IN  IF old.x - 1 < 0 - old.top_entity.views[1].width
                        THEN /\ new.x = SCREEN_WIDTH
                             /\ new.y >= SCREEN_HEIGHT \div 4
                             /\ new.y < (3 * SCREEN_HEIGHT) \div 4
                             /\ ~new.score_collected
                        ELSE /\ new.x = old.x - 1
                             /\ new.y = old.y
                             /\ old.score_collected => new.score_collected

\* C12 witness: scroll_world has recycled obstacle 0, whose flag is clear
\* and whose centre came from a rand() result other than 0, and has left
\* obstacle 1 at the last column before recycling with its flag set.
C12_Witness ==
    /\ pc = "scroll_world_done"
    /\ game_state.obstacles[1].x = SCREEN_WIDTH
    /\ game_state.obstacles[1].y = RandomCentre(1)
    /\ ~game_state.obstacles[1].score_collected
    /\ game_state.obstacles[2].x = 0 - game_state.obstacles[2].top_entity.views[1].width
    /\ game_state.obstacles[2].score_collected

----------------------------------------------------------------------------
(* run_periodic_timers on a clock *)

\* The milliseconds a callback, or the rest of the loop's body, can take: no
\* time, one millisecond, or as long as the period of one of the timers
Advances == {0, 1} \cup { InitTimers[k].period : k \in 1..Len(InitTimers) }

\* line 724 with >= for >
Due_inclusive(timer, now) == now - timer.last_trigger_time >= timer.period

\* line 724
Due(timer, now) == now - timer.last_trigger_time > timer.period

InitTimerRun ==
    /\ periodic_timers = InitTimers
    /\ clock = StartTime
    /\ timer_log = <<>>
    /\ pc = "loop"
    /\ iteration = 0
    /\ game_state = Unused
    /\ display_state = Unused
    /\ terminal = Unused
    /\ writes = Unused
    /\ entity1 = Unused
    /\ entity2 = Unused
    /\ collision = FALSE
    /\ files = Unused
    /\ keys = Unused

\* lines 253-263: the loop's body up to the call of run_periodic_timers
EnterTimers ==
    /\ pc = "loop"
    /\ iteration < MaxPasses
    /\ iteration' = iteration + 1
    /\ \E d \in Advances : clock' = clock + d
    /\ timer_log' = <<>>
    /\ pc' = "timer_0"
    /\ UNCHANGED <<game_state, display_state, terminal, writes, periodic_timers,
                   entity1, entity2, collision, keys, files>>

\* lines 724-727 for timer i when it is due: the callback runs, which takes
\* time, and millis() is read again
TimerDue(i) ==
    /\ AtTimer(i)
    /\ Due(periodic_timers[i + 1], clock)
    /\ \E d \in Advances :
        /\ clock' = clock + d
        /\ periodic_timers' = [periodic_timers EXCEPT ![i + 1].last_trigger_time = clock + d]
        /\ timer_log' = Append(timer_log,
                [now |-> clock, last_trigger_time |-> periodic_timers[i + 1].last_trigger_time,
                 calls |-> 1, returned |-> clock + d])
    /\ pc' = AfterTimer(i)
    /\ UNCHANGED <<game_state, display_state, terminal, writes, iteration,
                   entity1, entity2, collision, keys, files>>

\* line 724 for timer i when it is not due
TimerNotDue(i) ==
    /\ AtTimer(i)
    /\ ~Due(periodic_timers[i + 1], clock)
    /\ timer_log' = Append(timer_log,
            [now |-> clock, last_trigger_time |-> periodic_timers[i + 1].last_trigger_time,
             calls |-> 0, returned |-> clock])
    /\ pc' = AfterTimer(i)
    /\ UNCHANGED <<game_state, display_state, terminal, writes, periodic_timers, iteration,
                   entity1, entity2, collision, clock, keys, files>>

NextTimers ==
    \/ EnterTimers
    \/ \E i \in 0..(Len(InitTimers) - 1) : TimerDue(i)
    \/ \E i \in 0..(Len(InitTimers) - 1) : TimerNotDue(i)

SpecTimers == InitTimerRun /\ [][NextTimers]_vars

\* C13: in one pass of run_periodic_timers each timer is looked at once; its
\* callback is invoked exactly once if the time read minus last_trigger_time
\* is strictly more than the period, however many periods that is, and not
\* at all otherwise; after an invocation last_trigger_time is the time read
\* when the callback has returned, and without one it is unchanged.
C13_OncePerPassWhenDue ==
    /\ Len(timer_log) <= Len(periodic_timers)
    /\ \A k \in 1..Len(timer_log) :
        LET entry == timer_log[k]
            elapsed == entry.now - entry.last_trigger_time
        IN  /\ entry.calls = IF elapsed > periodic_timers[k].period THEN 1 ELSE 0
            /\ periodic_timers[k].last_trigger_time =
                    IF elapsed > periodic_timers[k].period
                    THEN entry.returned
                    ELSE entry.last_trigger_time

\* C13 witness: a pass is over in which game_tick's timer had been triggered
\* before, was looked at more than two of its periods later, and was invoked
\* once, while scroll_world's timer, exactly one period after its last
\* trigger, was not invoked.
C13_Witness ==
    /\ pc = "loop"
    /\ Len(timer_log) = Len(periodic_timers)
    /\ timer_log[3].last_trigger_time > 0
    /\ timer_log[3].now - timer_log[3].last_trigger_time > 2 * periodic_timers[3].period
    /\ timer_log[3].calls = 1
    /\ timer_log[1].now - timer_log[1].last_trigger_time = periodic_timers[1].period
    /\ timer_log[1].calls = 0

----------------------------------------------------------------------------
(* main(): leaving the loop *)

\* What the way out of the loop depends on: the quit flag, the escape key,
\* the timer of game_tick and the clock. No entity is registered, so that a
\* frame is its border; scroll_world and animate_bird, which write neither
\* the flag nor a timer, are steps without effect.
QuitGameState == [quit |-> FALSE, entity_count |-> 0, entities |-> <<>>]

\* Time is counted from the last trigger of game_tick's timer, whose
\* last_trigger_time therefore stays 0, and is followed until that timer is
\* due: line 724 tells no later times apart.
WhenDue(timer) == timer.period + 1

InitQuit ==
    /\ game_state = QuitGameState
    /\ display_state = [current_frame |-> FilledFrame(NUL),
                        next_frame |-> FilledFrame(NUL),
                        last_frame_time |-> 0]
    /\ terminal = cls
    /\ writes = <<>>
    /\ periodic_timers = InitTimers
    /\ clock = WhenDue(InitTimers[3])
    /\ keys = {}
    /\ pc = "loop"
    /\ iteration = Unused
    /\ timer_log = Unused
    /\ entity1 = Unused
    /\ entity2 = Unused
    /\ collision = FALSE
    /\ files = Unused

\* the player presses the escape key
KeyDown ==
    /\ pc # "exited"
    /\ VK_ESCAPE \notin keys
    /\ keys' = keys \cup {VK_ESCAPE}
    /\ UNCHANGED <<game_state, display_state, terminal, writes, periodic_timers,
                   iteration, pc, entity1, entity2, collision, clock, timer_log, files>>

\* the player lets go of the escape key
KeyUp ==
    /\ pc # "exited"
    /\ VK_ESCAPE \in keys
    /\ keys' = keys \ {VK_ESCAPE}
    /\ UNCHANGED <<game_state, display_state, terminal, writes, periodic_timers,
                   iteration, pc, entity1, entity2, collision, clock, timer_log, files>>

\* the clock advances
TimePasses ==
    /\ pc # "exited"
    /\ clock < WhenDue(periodic_timers[3])
    /\ \E d \in Advances \ {0} :
        clock' = IF clock + d < WhenDue(periodic_timers[3])
                 THEN clock + d ELSE WhenDue(periodic_timers[3])
    /\ UNCHANGED <<game_state, display_state, terminal, writes, periodic_timers,
                   iteration, pc, entity1, entity2, collision, timer_log, keys, files>>

\* lines 253-258: the loop is entered and a frame is due
QuitFrame ==
    /\ pc = "loop"
    /\ ~game_state.quit
    /\ LET st == update_display(render_next_frame(display_state, game_state), terminal)
       IN  /\ display_state' = st.ds
           /\ terminal' = st.terminal
           /\ writes' = st.writes
    /\ pc' = "timer_0"
    /\ UNCHANGED <<game_state, periodic_timers, iteration, entity1, entity2,
                   collision, clock, timer_log, keys, files>>

\* line 255: the loop is entered and no frame is due
QuitSkipFrame ==
    /\ pc = "loop"
    /\ ~game_state.quit
    /\ display_state.last_frame_time # 0
    /\ writes' = <<>>
    /\ pc' = "timer_0"
    /\ UNCHANGED <<game_state, display_state, terminal, periodic_timers, iteration,
                   entity1, entity2, collision, clock, timer_log, keys, files>>

\* lines 724-727 for the timers of scroll_world (0) and animate_bird (1)
QuitOtherTimer(i) ==
    /\ AtTimer(i)
    /\ periodic_timers[i + 1].callback # "game_tick"
    /\ writes' = <<>>
    /\ pc' = AfterTimer(i)
    /\ UNCHANGED <<game_state, display_state, terminal, periodic_timers, iteration,
                   entity1, entity2, collision, clock, timer_log, keys, files>>

\* lines 724-727 for the timer of game_tick when it is due: lines 654-675
\* with the keys that are down
QuitGameTick ==
    /\ AtTimer(2)
    /\ Due(periodic_timers[3], clock)
    /\ game_state' = tick_keys(game_state, keys, <<>>)
    /\ clock' = 0
    /\ writes' = <<>>
    /\ pc' = AfterTimer(2)
    /\ UNCHANGED <<display_state, terminal, periodic_timers, iteration,
                   entity1, entity2, collision, timer_log, keys, files>>

\* line 724 for the timer of game_tick when it is not due
QuitSkipGameTick ==
    /\ AtTimer(2)
    /\ ~Due(periodic_timers[3], clock)
    /\ writes' = <<>>
    /\ pc' = AfterTimer(2)
    /\ UNCHANGED <<game_state, display_state, terminal, periodic_timers, iteration,
                   entity1, entity2, collision, clock, timer_log, keys, files>>

\* the steps of the program
QuitProgram ==
    \/ QuitFrame
    \/ QuitSkipFrame
    \/ \E i \in 0..1 : QuitOtherTimer(i)
    \/ QuitGameTick
    \/ QuitSkipGameTick
    \/ Exit

NextQuit ==
    \/ KeyDown
    \/ KeyUp
    \/ TimePasses
    \/ QuitProgram

\* The program keeps running, and the clock keeps advancing.
SpecQuit ==
    /\ InitQuit
    /\ [][NextQuit]_vars
    /\ WF_vars(QuitProgram)
    /\ WF_vars(TimePasses)

\* C15: if from some point on the escape key is down for good, then, the
\* clock advancing, the program eventually is past the loop (line 266 on,
\* which ends in return 0), with the screen cleared and the farewell line
\* printed on it.
C15_HeldQuitKeyExits ==
    <>[](VK_ESCAPE \in keys) => <>(pc = "exited" /\ terminal = print_farewell(cls))

\* C15 witness: the program is past the loop with the farewell on a cleared
\* screen, the key still down, after a frame had been drawn and game_tick's
\* timer had been triggered.
C15_Witness ==
    /\ pc = "exited"
    /\ terminal = print_farewell(cls)
    /\ VK_ESCAPE \in keys
    /\ game_state.quit
    /\ display_state.current_frame = draw_border(FilledFrame(BLANK))
    /\ clock = 0

----------------------------------------------------------------------------
(* render_entity and render_next_frame on entities placed anywhere *)

\* how far off the screen, in cells, an entity is placed
RenderMargin == 2

RenderPositions ==
    { <<x, y>> : x \in (0 - RenderMargin)..(SCREEN_WIDTH - 1 + RenderMargin),
                 y \in (0 - RenderMargin)..(SCREEN_HEIGHT - 1 + RenderMargin) }

\* the entities that are placed: one of each kind main() registers
RenderRefs ==
    { <<"title_text", 0>>, <<"press_space_to_start", 0>>, <<"top_entity", 1>>,
      <<"bottom_entity", 3>>, <<"bird", 0>>, <<"digits", 1>> }

\* the assignment through the pointer that Deref follows
PutEntity(gs, ref, entity) ==
    CASE ref[1] = "title_text" -> [gs EXCEPT !.title_text = entity]
      [] ref[1] = "press_space_to_start" -> [gs EXCEPT !.press_space_to_start = entity]
      [] ref[1] = "top_entity" -> [gs EXCEPT !.obstacles[ref[2]].top_entity = entity]
      [] ref[1] = "bottom_entity" -> [gs EXCEPT !.obstacles[ref[2]].bottom_entity = entity]
      [] ref[1] = "bird" -> [gs EXCEPT !.bird.entity = entity]
      [] ref[1] = "digits" -> [gs EXCEPT !.score_counter.digits[ref[2]] = entity]

\* a sprite file whose lines end with sep
WithLineEnding(view, sep) ==
    [view EXCEPT !.display = [i \in DOMAIN @ |-> IF @[i] = NL THEN sep ELSE @[i]]]

\* The loop of render_entity, lines 432-445, as the code runs it, from
\* character i on with the cursor at (current_x, current_y); st holds the
\* frame and the stores into it made so far
RECURSIVE render_chars(_, _, _, _, _, _)
render_chars(view, i, start_x, current_x, current_y, st) ==
    IF i < view.display_size - 1
    THEN IF view.display[i + 1] = NL \/ view.display[i + 1] = CR
         THEN render_chars(view, i + 1, start_x, start_x, current_y + 1, st)
         ELSE render_chars(view, i + 1, start_x, current_x + 1, current_y,
                IF /\ current_x >= 0 /\ current_x < SCREEN_WIDTH
                   /\ current_y >= 0 /\ current_y < SCREEN_HEIGHT
                THEN [frame |-> [st.frame EXCEPT ![current_x][current_y] =
                                    view.display[i + 1]],
                      writes |-> Append(st.writes,
                                    <<current_x, current_y, view.display[i + 1]>>)]
                ELSE st)
    ELSE st

\* lines 416-446 starting at the entity's position instead of lines 425-426
render_entity_loop_from_position(entity, frame) ==
    IF ~entity.visible
    THEN [frame |-> frame, writes |-> <<>>]
    ELSE render_chars(CurrentView(entity), 0, entity.x, entity.x, entity.y,
                      [frame |-> frame, writes |-> <<>>])

\* lines 416-446
render_entity_loop(entity, frame) ==
    IF ~entity.visible
    THEN [frame |-> frame, writes |-> <<>>]
    ELSE LET view == CurrentView(entity)
             start_x == entity.x - view.origin_x
             start_y == entity.y - view.origin_y
         IN  render_chars(view, 0, start_x, start_x, start_y,
                          [frame |-> frame, writes |-> <<>>])

\* the state at line 253 with one registered entity placed anywhere, shown
\* or hidden, in any of its views, its sprite files ending their lines with
\* a newline or with a carriage return
InitRender ==
    /\ \E ref \in RenderRefs : \E pos \in RenderPositions : \E shown \in BOOLEAN :
       \E sep \in {NL, CR} :
        LET entity == Deref(InitGameState, ref)
        IN  \E view \in 0..(entity.num_views - 1) :
                LET placed == [entity EXCEPT
                                !.x = pos[1], !.y = pos[2], !.visible = shown,
                                !.current_view = view,
                                !.views = [k \in DOMAIN @ |-> WithLineEnding(@[k], sep)]]
                IN  /\ game_state = PutEntity(InitGameState, ref, placed)
                    /\ entity1 = placed
    /\ display_state = [current_frame |-> FilledFrame(NUL),
                        next_frame |-> FilledFrame(NUL),
                        last_frame_time |-> 0]
    /\ writes = <<>>
    /\ pc = "loop"
    /\ terminal = Unused
    /\ periodic_timers = Unused
    /\ iteration = Unused
    /\ entity2 = Unused
    /\ collision = FALSE
    /\ files = Unused
    /\ clock = Unused
    /\ timer_log = Unused
    /\ keys = Unused

\* line 375 for the placed entity, on the frame as line 370 leaves it;
\* writes are the stores of line 441
CallRenderEntity ==
    /\ pc = "loop"
    /\ LET st == render_entity_loop(entity1, FilledFrame(BLANK))
       IN  /\ display_state' = [display_state EXCEPT !.next_frame = st.frame]
           /\ writes' = st.writes
    /\ pc' = "render_entity_done"
    /\ UNCHANGED <<game_state, terminal, periodic_timers, iteration, entity1, entity2,
                   collision, clock, timer_log, keys, files>>

\* line 256
CallRenderNextFrame ==
    /\ pc = "loop"
    /\ display_state' = render_next_frame(display_state, game_state)
    /\ pc' = "render_next_frame_done"
    /\ UNCHANGED <<game_state, terminal, writes, periodic_timers, iteration, entity1,
                   entity2, collision, clock, timer_log, keys, files>>

NextRender ==
    \/ CallRenderEntity
    \/ CallRenderNextFrame

SpecRender == InitRender /\ [][NextRender]_vars

\* the cells of the frame that render_next_frame has just filled
next_frame == display_state.next_frame

Corners == { <<x, y>> \in Columns \X Rows :
                (x = 0 \/ x = SCREEN_WIDTH - 1) /\ (y = 0 \/ y = SCREEN_HEIGHT - 1) }

\* C16 as stated: after render_next_frame every cell of the top and bottom
\* rows is '=' and every cell of the left and right columns is '|'. The four
\* corners are in a row and in a column, and cannot hold both.
C16_BorderRowsAndColumnsFull ==
    pc = "render_next_frame_done" =>
        /\ \A x \in Columns : next_frame[x][0] = "=" /\ next_frame[x][SCREEN_HEIGHT - 1] = "="
        /\ \A y \in Rows : next_frame[0][y] = "|" /\ next_frame[SCREEN_WIDTH - 1][y] = "|"

\* C16: after render_next_frame, whatever entity lies on the border, every
\* cell of the left and right columns is '|', corners included, and every
\* other cell of the top and bottom rows is '='.
C16_BorderDrawn ==
    pc = "render_next_frame_done" =>
        /\ \A y \in Rows : next_frame[0][y] = "|" /\ next_frame[SCREEN_WIDTH - 1][y] = "|"
        /\ \A x \in Columns \ {0, SCREEN_WIDTH - 1} :
                next_frame[x][0] = "=" /\ next_frame[x][SCREEN_HEIGHT - 1] = "="

\* C16 witness: render_next_frame has run with a visible obstacle part lying
\* across the bottom right corner, on the bottom row and on the right column.
C16_Witness ==
    /\ pc = "render_next_frame_done"
    /\ entity1.visible
    /\ Landing(entity1, SCREEN_WIDTH - 1, SCREEN_HEIGHT - 1) # {}
    /\ Landing(entity1, SCREEN_WIDTH - 2, SCREEN_HEIGHT - 1) # {}
    /\ Landing(entity1, SCREEN_WIDTH - 1, SCREEN_HEIGHT - 2) # {}
    /\ next_frame[SCREEN_WIDTH - 1][SCREEN_HEIGHT - 1] = "|"
    /\ next_frame[SCREEN_WIDTH - 2][SCREEN_HEIGHT - 1] = "="

\* the glyphs of the entity's active view whose cell is on the screen, the
\* cell of glyph i being GlyphCell(entity, i)
GlyphCell(entity, i) ==
    LET view == CurrentView(entity)
    IN  <<entity.x - view.origin_x + ColumnOf(view, i),
          entity.y - view.origin_y + RowOf(view, i)>>

GlyphsOnScreen(entity) ==
    { i \in Glyphs(CurrentView(entity)) : GlyphCell(entity, i) \in Columns \X Rows }

\* the k-th smallest member of a set of numbers
Kth(S, k) == CHOOSE i \in S : Cardinality({ j \in S : j < i }) = k - 1

\* C17: render_entity stores nothing for an invisible entity. For a visible
\* one its stores are, in the order of the view's characters, one per glyph
\* whose cell is on the screen, the cell of a glyph being the start
\* (x - origin_x, y - origin_y) moved right by the glyphs that precede it on
\* its row and down by the newlines and carriage returns that precede it;
\* every store is to a cell of the frame, and all other cells of the frame
\* are as they were.
C17_PaintsViewClipped ==
    pc = "render_entity_done" =>
        IF ~entity1.visible
        THEN writes = <<>> /\ next_frame = FilledFrame(BLANK)
        ELSE /\ Len(writes) = Cardinality(GlyphsOnScreen(entity1))
             /\ \A k \in 1..Len(writes) :
                    LET i == Kth(GlyphsOnScreen(entity1), k)
                    IN  /\ writes[k][1] = GlyphCell(entity1, i)[1]
                        /\ writes[k][2] = GlyphCell(entity1, i)[2]
                        /\ writes[k][3] = CurrentView(entity1).display[i]
                        /\ writes[k][1] >= 0 /\ writes[k][1] < SCREEN_WIDTH
                        /\ writes[k][2] >= 0 /\ writes[k][2] < SCREEN_HEIGHT
             /\ \A x \in Columns : \A y \in Rows :
                    LET stores == { k \in 1..Len(writes) :
                                        writes[k][1] = x /\ writes[k][2] = y }
                    IN  next_frame[x][y] = IF stores = {} THEN BLANK
                                           ELSE writes[Last(stores)][3]
             /\ next_frame = render_entity(entity1, FilledFrame(BLANK))

\* C17 witness: render_entity has painted a visible entity whose view has
\* three rows separated by carriage returns and an origin below its top
\* row, placed so that its first row is above the screen and its first
\* column left of it: one glyph is stored, at the top left cell.
C17_Witness ==
    /\ pc = "render_entity_done"
    /\ entity1.visible
    /\ CurrentView(entity1).origin_y = 2
    /\ \E i \in 1..(CurrentView(entity1).display_size - 1) : CurrentView(entity1).display[i] = CR
    /\ entity1.x - CurrentView(entity1).origin_x = -1
    /\ entity1.y - CurrentView(entity1).origin_y = -2
    /\ writes = << <<0, 0, "#">> >>
    /\ next_frame[0][0] = "#"

\* the registered entities, by position in game_state.entities, that are
\* visible and have a glyph on cell (x, y)
Covering(gs, x, y) ==
    { k \in 1..gs.entity_count :
        /\ Deref(gs, gs.entities[k]).visible
        /\ Landing(Deref(gs, gs.entities[k]), x, y) # {} }

\* the glyph a registered entity has on cell (x, y)
GlyphAt(gs, k, x, y) ==
    LET entity == Deref(gs, gs.entities[k])
    IN  CurrentView(entity).display[Last(Landing(entity, x, y))]

\* game_state.entities as main() fills it, lines 203-231
RegistrationOrder ==
    << <<"title_text", 0>>, <<"press_space_to_start", 0>>,
       <<"top_entity", 1>>, <<"bottom_entity", 1>>,
       <<"top_entity", 2>>, <<"bottom_entity", 2>>,
       <<"top_entity", 3>>, <<"bottom_entity", 3>>,
       <<"bird", 0>> >>
    \o [i \in 1..SCORE_COUNTER_DIGITS |-> <<"digits", i>>]

\* C18: the entities are registered in the order title, prompt, the top and
\* bottom part of each obstacle, bird, score digits, and after
\* render_next_frame every cell off the border on which two or more visible
\* registered entities have a glyph holds the glyph of the one registered
\* last among them.
C18_LastRegisteredOnTop ==
    pc = "render_next_frame_done" =>
        /\ game_state.entities = RegistrationOrder
        /\ game_state.entity_count = Len(RegistrationOrder)
        /\ \A x \in Columns \ {0, SCREEN_WIDTH - 1} :
           \A y \in Rows \ {0, SCREEN_HEIGHT - 1} :
                LET covering == Covering(game_state, x, y)
                IN  Cardinality(covering) >= 2 =>
                        next_frame[x][y] = GlyphAt(game_state, Last(covering), x, y)

\* C18 witness: render_next_frame has run with the bird placed on a cell,
\* off the border, of the title, whose glyph there differs from the
\* bird's; the frame holds the bird's.
C18_Witness ==
    /\ pc = "render_next_frame_done"
    /\ \E x \in Columns \ {0, SCREEN_WIDTH - 1} : \E y \in Rows \ {0, SCREEN_HEIGHT - 1} :
        LET covering == Covering(game_state, x, y)
        IN  /\ Cardinality(covering) >= 2
            /\ 1 \in covering
            /\ game_state.entities[Last(covering)] = <<"bird", 0>>
            /\ \A k \in covering \ {Last(covering)} :
                    GlyphAt(game_state, k, x, y) # next_frame[x][y]
            /\ next_frame[x][y] = GlyphAt(game_state, Last(covering), x, y)

----------------------------------------------------------------------------
(* The views of the registered entities: the claims, over the main loop *)

\* the entities render_next_frame goes through
RegisteredEntities(gs) == { Deref(gs, gs.entities[k]) : k \in 1..gs.entity_count }

\* scores on both sides of every change in the number of digits
BoundaryScores == {0, 1, 9, 10, 99, 100, 999, 1000, 9999, 10000, MaxScore}

\* C19: in every state of the main loop, from the state in which it is
\* entered, every registered entity (title, prompt, obstacle parts, bird,
\* score digits) has current_view < num_views; and update_score_counter,
\* called there with a score of any number of digits up to five, leaves
\* every digit so.
C19_CurrentViewInRange ==
    /\ \A entity \in RegisteredEntities(game_state) :
            entity.current_view >= 0 /\ entity.current_view < entity.num_views
    /\ \A p \in BoundaryScores :
            LET gs == update_score_counter([game_state EXCEPT !.score = p])
            IN  \A entity \in RegisteredEntities(gs) :
                    entity.current_view >= 0 /\ entity.current_view < entity.num_views

\* C19 witness: in a game, after a flap and an animate_bird call, the bird
\* shows its last view, and after a point was scored the lowest digit
\* shows view 1.
C19_Witness ==
    /\ game_state.screen_type = GAME_SCREEN
    /\ game_state.bird.entity.current_view = game_state.bird.entity.num_views - 1
    /\ game_state.score = 1
    /\ game_state.score_counter.digits[1].current_view = 1
    /\ game_state.score_counter.digits[1].visible

\* the entities game_tick passes to check_collision and to
\* next_entity_view, and animate_bird to next_entity_view
EntitiesUsedByTimers(gs) ==
    {gs.bird.entity}
        \cup { gs.obstacles[i].top_entity : i \in 1..gs.obstacle_count }
        \cup { gs.obstacles[i].bottom_entity : i \in 1..gs.obstacle_count }

\* C20: in every state of the main loop, from the state in which it is
\* entered (before the first frame and the first timer), every entity that
\* render_next_frame passes to render_entity, and every entity that the
\* timer callbacks pass to check_collision or next_entity_view, has at least
\* one view, and as many views loaded as num_views says.
C20_EveryEntityHasAView ==
    \A entity \in RegisteredEntities(game_state) \cup EntitiesUsedByTimers(game_state) :
        /\ entity.num_views >= 1
        /\ Len(entity.views) = entity.num_views
        /\ \A k \in 1..entity.num_views : entity.views[k].display_size >= 1

\* C20 witness: the loop has been entered twice, frames were rendered and
\* flushed, a game was started by a flap, which called next_entity_view,
\* and game_tick has called check_collision in the game without a hit.
C20_Witness ==
    /\ pc = "loop"
    /\ iteration = 2
    /\ display_state.last_frame_time # 0
    /\ display_state.current_frame = display_state.next_frame
    /\ game_state.screen_type = GAME_SCREEN
    /\ game_state.bird.entity.current_view = 1
    /\ periodic_timers[3].last_trigger_time # 0
    /\ ~HitsObstacle(game_state)

----------------------------------------------------------------------------
(* next_entity_view, called repeatedly *)

\* an entity with n views, showing view c
EntityWithViews(n, c) ==
    [x |-> 0, y |-> 0, num_views |-> n, current_view |-> c,
     views |-> [k \in 1..n |-> DecoyView], visible |-> TRUE]

\* entity2 keeps the entity as it was before the first call, iteration
\* counts the calls
InitViews ==
    /\ \E n \in 1..MAX_VIEWS : \E c \in 0..(n - 1) :
        /\ entity1 = EntityWithViews(n, c)
        /\ entity2 = EntityWithViews(n, c)
    /\ iteration = 0
    /\ pc = "next_entity_view"
    /\ game_state = Unused
    /\ display_state = Unused
    /\ terminal = Unused
    /\ writes = Unused
    /\ periodic_timers = Unused
    /\ collision = FALSE
    /\ files = Unused
    /\ keys = Unused
    /\ clock = Unused
    /\ timer_log = Unused

\* lines 533-535, up to num_views times
CallNextEntityView ==
    /\ pc = "next_entity_view"
    /\ iteration < entity1.num_views
    /\ entity1' = next_entity_view(entity1)
    /\ iteration' = iteration + 1
    /\ UNCHANGED <<game_state, display_state, terminal, writes, periodic_timers, pc,
                   entity2, collision, clock, timer_log, keys, files>>

NextViews == CallNextEntityView

SpecViews == InitViews /\ [][NextViews]_vars

\* C21: for an entity with n >= 1 views that starts at a view below n, a
\* call of next_entity_view moves current_view to the next view, and from
\* the last view to view 0, and changes nothing else; after exactly n calls
\* the entity is as it started.
C21_FullCycleReturns ==
    /\ next_entity_view(entity1) =
            [entity1 EXCEPT !.current_view =
                IF entity1.current_view + 1 = entity1.num_views
                THEN 0 ELSE entity1.current_view + 1]
    /\ entity1.current_view < entity1.num_views
    /\ (iteration > 0 /\ iteration < entity1.num_views) => entity1 # entity2
    /\ iteration = entity1.num_views => entity1 = entity2

\* C21 witness: an entity with three views that started at its last view
\* has been through three calls, the first of which wrapped to view 0.
C21_Witness ==
    /\ entity2.num_views = 3
    /\ entity2.current_view = 2
    /\ iteration = 3
    /\ entity1.current_view = 2

----------------------------------------------------------------------------
(* main(): setup, with sprite files that may be missing or malformed *)

\* the files in the order main() loads views from them, lines 203-231: the
\* obstacle files once per obstacle, the digit files once per score digit
LoadOrder ==
    <<"not_flappy_bird.entity", "press_space_to_start.entity",
      "obstacle_top.entity", "obstacle_bottom.entity",
      "obstacle_top.entity", "obstacle_bottom.entity",
      "obstacle_top.entity", "obstacle_bottom.entity",
      "bird_0.entity", "bird_1.entity", "bird_2.entity">>
    \o [k \in 1..(SCORE_COUNTER_DIGITS * 10) |-> DigitFile((k - 1) % 10)]

AssetFiles == { LoadOrder[k] : k \in 1..Len(LoadOrder) }

\* a file as add_entity_view_from_file meets it: whether fopen returns a
\* stream, and the value of fscanf, which is EOF (-1) or the number of
\* header fields it has assigned
FileStates == [opened : BOOLEAN, parsed : -1..4]

GoodFile == [opened |-> TRUE, parsed |-> 4]

\* line 480 accepting three fields
header_parsed_three_fields(file) == file.parsed >= 3

\* line 480
header_parsed(file) == file.parsed = 4

\* lines 470-484: what the call comes to before it reads the body
load_outcome(file) ==
    IF ~file.opened THEN "Error opening file"
    ELSE IF ~header_parsed(file) THEN "Error parsing entity file"
    ELSE "Loaded entity view"

\* the state at line 203: all files good, or one of them missing or with
\* a header that fscanf does not parse in full
InitSetup ==
    /\ \/ files = [f \in AssetFiles |-> GoodFile]
       \/ \E bad \in AssetFiles : \E state \in FileStates \ {GoodFile} :
            files = [f \in AssetFiles |-> IF f = bad THEN state ELSE GoodFile]
    /\ game_state = ZeroGameState
    /\ iteration = 0
    /\ pc = "setup"
    /\ writes = <<>>
    /\ display_state = Unused
    /\ terminal = Unused
    /\ periodic_timers = Unused
    /\ entity1 = Unused
    /\ entity2 = Unused
    /\ collision = FALSE
    /\ keys = Unused
    /\ clock = Unused
    /\ timer_log = Unused

\* the next call of add_entity_view_from_file returns, line 526; iteration
\* counts the calls that have; the entities under construction are not
\* followed
LoadView ==
    /\ pc = "setup"
    /\ iteration < Len(LoadOrder)
    /\ load_outcome(files[LoadOrder[iteration + 1]]) = "Loaded entity view"
    /\ iteration' = iteration + 1
    /\ writes' = <<"Loaded entity view", LoadOrder[iteration + 1]>>
    /\ UNCHANGED <<game_state, display_state, terminal, periodic_timers, pc,
                   entity1, entity2, collision, clock, timer_log, keys, files>>

\* the next call of add_entity_view_from_file ends in exit(1), line 473 or 483
LoadFails ==
    /\ pc = "setup"
    /\ iteration < Len(LoadOrder)
    /\ load_outcome(files[LoadOrder[iteration + 1]]) # "Loaded entity view"
    /\ writes' = <<load_outcome(files[LoadOrder[iteration + 1]]), LoadOrder[iteration + 1]>>
    /\ pc' = "exit_1"
    /\ UNCHANGED <<game_state, display_state, terminal, periodic_timers, iteration,
                   entity1, entity2, collision, clock, timer_log, keys, files>>

\* lines 232-253: every view is loaded and the loop is entered
EnterLoop ==
    /\ pc = "setup"
    /\ iteration = Len(LoadOrder)
    /\ game_state' = InitGameState
    /\ writes' = <<>>
    /\ pc' = "loop"
    /\ UNCHANGED <<display_state, terminal, periodic_timers, iteration,
                   entity1, entity2, collision, clock, timer_log, keys, files>>

NextSetup ==
    \/ LoadView
    \/ LoadFails
    \/ EnterLoop

\* The program keeps running.
SpecSetup == InitSetup /\ [][NextSetup]_vars /\ WF_vars(NextSetup)

\* a file that fopen does not open or whose header fscanf does not parse
BadFile(file) == ~file.opened \/ file.parsed < 4

\* C22: if one of the sprite files cannot be opened, or fscanf assigns
\* fewer than four fields of its header, then the loop is never entered
\* and the process eventually ends in exit(1), in the first call that
\* meets the file: no file is tried again, the count of loaded views never
\* going back nor moving once the process has ended.
C22_BadAssetEndsSetup ==
    /\ (\E f \in AssetFiles : BadFile(files[f]))
            => ([](pc # "loop") /\ <>(pc = "exit_1"))
    /\ [](pc = "exit_1" =>
            /\ BadFile(files[LoadOrder[iteration + 1]])
            /\ \A k \in 1..iteration : ~BadFile(files[LoadOrder[k]]))
    /\ [][ /\ iteration' >= iteration
           /\ pc = "exit_1" => pc' = "exit_1" /\ iteration' = iteration ]_vars

\* C22 witness: the process has ended in exit(1) with the parse diagnostic
\* at the bird's third file, of which fscanf had assigned three fields,
\* after ten views were loaded.
C22_Witness ==
    /\ pc = "exit_1"
    /\ iteration = 10
    /\ files["bird_2.entity"] = [opened |-> TRUE, parsed |-> 3]
    /\ writes = <<"Error parsing entity file", "bird_2.entity">>

----------------------------------------------------------------------------
(* The fixed-capacity arrays: views, entities, obstacles *)

\* a game state holding m obstacles and n registered entities
CapacityState(n, m) ==
    LET part == add_entity_view_from_file(create_entity, "obstacle_top.entity")
    IN  [entity_count |-> n,
         entities |-> [k \in 1..n |-> <<"top_entity", 1>>],
         obstacle_count |-> m,
         obstacles |-> [k \in 1..m |->
                          [x |-> 0, y |-> 0, gap_size |-> 1, top_entity |-> part,
                           bottom_entity |-> part, score_collected |-> FALSE]]]

\* One call of one of the three functions, on arrays filled to any level up
\* to their capacity. writes will hold the stores into the arrays that the
\* call makes: the array, the index, and the array's capacity.
InitCapacity ==
    /\ \/ /\ pc = "add_entity_view_from_file"
          /\ \E n \in 0..MAX_VIEWS : entity1 = EntityWithViews(n, 0)
          /\ game_state = CapacityState(0, 0)
       \/ /\ pc = "register_entity"
          /\ entity1 = EntityWithViews(1, 0)
          /\ \E n \in 0..MAX_ENTITIES : game_state = CapacityState(n, 0)
       \/ /\ pc = "create_obstacle"
          /\ entity1 = EntityWithViews(1, 0)
          /\ \E n \in 0..MAX_ENTITIES : \E m \in 0..MAX_OBSTACLES :
                game_state = CapacityState(n, m)
    /\ writes = <<>>
    /\ iteration = Unused
    /\ display_state = Unused
    /\ terminal = Unused
    /\ periodic_timers = Unused
    /\ entity2 = Unused
    /\ collision = FALSE
    /\ keys = Unused
    /\ clock = Unused
    /\ timer_log = Unused
    /\ files = Unused

\* a store into an array of the given capacity
Store(array, index, capacity) == [array |-> array, index |-> index, capacity |-> capacity]

\* register_entity where the store of line 555 may land outside entities[]:
\* the count is incremented all the same and the array is as it was
register_entity_stored(gs, ref) ==
    IF gs.entity_count < MAX_ENTITIES
    THEN register_entity(gs, ref)
    ELSE [gs EXCEPT !.entity_count = @ + 1]

\* lines 464-527 with a file that opens and parses: line 521 stores at
\* views[num_views] whatever num_views is. A store at views[MAX_VIEWS]
\* covers the bytes of visible, which ends with either value.
CallAddView ==
    /\ pc = "add_entity_view_from_file"
    /\ writes' = <<Store("views", entity1.num_views, MAX_VIEWS)>>
    /\ IF entity1.num_views < MAX_VIEWS
       THEN entity1' = add_entity_view_from_file(entity1, "0.entity")
       ELSE \E v \in BOOLEAN :
                entity1' = [entity1 EXCEPT !.num_views = @ + 1, !.visible = v]
    /\ pc' = "returned"
    /\ UNCHANGED <<game_state, display_state, terminal, periodic_timers, iteration,
                   entity2, collision, clock, timer_log, keys, files>>

\* lines 542-556: line 555 stores at entities[entity_count - 1] after the
\* increment of line 554
CallRegisterEntity ==
    /\ pc = "register_entity"
    /\ writes' = <<Store("entities", game_state.entity_count, MAX_ENTITIES)>>
    /\ game_state' = register_entity_stored(game_state, <<"title_text", 0>>)
    /\ pc' = "returned"
    /\ UNCHANGED <<display_state, terminal, periodic_timers, iteration, entity1,
                   entity2, collision, clock, timer_log, keys, files>>

\* lines 565-589: line 574 stores at obstacles[obstacle_count], and the two
\* calls of register_entity store as above
CallCreateObstacle ==
    /\ pc = "create_obstacle"
    /\ writes' = <<Store("obstacles", game_state.obstacle_count, MAX_OBSTACLES),
                   Store("entities", game_state.entity_count, MAX_ENTITIES),
                   Store("entities", game_state.entity_count + 1, MAX_ENTITIES)>>
    /\ IF game_state.obstacle_count < MAX_OBSTACLES
          /\ game_state.entity_count + 1 < MAX_ENTITIES
       THEN game_state' = create_obstacle(game_state, 0, 0, 1)
       ELSE LET n == game_state.obstacle_count + 1
                stored == IF game_state.obstacle_count < MAX_OBSTACLES
                          THEN [game_state EXCEPT
                                  !.obstacles = Append(@, update_obstacle(
                                      [CapacityState(0, 1).obstacles[1] EXCEPT !.gap_size = 1])),
                                  !.obstacle_count = n]
                          ELSE [game_state EXCEPT !.obstacle_count = n]
            IN  game_state' = register_entity_stored(
                                register_entity_stored(stored, <<"top_entity", n>>),
                                <<"bottom_entity", n>>)
    /\ pc' = "returned"
    /\ UNCHANGED <<display_state, terminal, periodic_timers, iteration, entity1,
                   entity2, collision, clock, timer_log, keys, files>>

NextCapacity ==
    \/ CallAddView
    \/ CallRegisterEntity
    \/ CallCreateObstacle

SpecCapacity == InitCapacity /\ [][NextCapacity]_vars

\* C23: a call that adds a view to an entity holding 10 views, registers an
\* entity when 25 are registered, or creates an obstacle when 25 exist, does
\* not return but ends the process; no call stores at an index at or past
\* the capacity of the array.
C23_CapacityChecked ==
    pc = "returned" =>
        \A k \in 1..Len(writes) : writes[k].index < writes[k].capacity

----------------------------------------------------------------------------
(* The obstacles and their parts: the claims, over scroll_world *)

ObstaclesAligned(gs) ==
    \A i \in 1..gs.obstacle_count :
        LET obstacle == gs.obstacles[i]
        IN  /\ obstacle.top_entity.x = obstacle.x
            /\ obstacle.bottom_entity.x = obstacle.x
            /\ obstacle.top_entity.y = obstacle.y - obstacle.gap_size
            /\ obstacle.bottom_entity.y = obstacle.y + obstacle.gap_size

\* C24: before and after scroll_world, after a start_game called in any of
\* these states, and after a create_obstacle called there, every obstacle
\* has both parts at its column, the top part gap_size rows above its row
\* and the bottom part gap_size rows below.
C24_PartsFollowObstacle ==
    /\ ObstaclesAligned(game_state)
    /\ \A r \in AllRands : ObstaclesAligned(start_game(game_state, r))
    /\ \A x \in {0, SCREEN_WIDTH} : \A y \in {0, SCREEN_HEIGHT \div 2} : \A gap \in 1..2 :
            ObstaclesAligned(create_obstacle(game_state, x, y, gap))

\* C24 witness: in a game scroll_world has recycled obstacle 0 to a new row
\* and moved obstacle 2 one column left, and their parts are where the
\* obstacles are.
C24_Witness ==
    /\ pc = "scroll_world_done"
    /\ game_state.screen_type = GAME_SCREEN
    /\ game_state.obstacles[1].x = SCREEN_WIDTH
    /\ game_state.obstacles[1].y = RandomCentre(1)
    /\ game_state.obstacles[1].top_entity.x = SCREEN_WIDTH
    /\ game_state.obstacles[1].bottom_entity.y = RandomCentre(1) + game_state.obstacles[1].gap_size
    /\ game_state.obstacles[3].x = BirdStartX
    /\ game_state.obstacles[3].top_entity.x = BirdStartX

\* the digit entities show exactly the decimal digits of the score
ShowsScore(gs) ==
    LET count == IF gs.score = 0 THEN 0 ELSE NumDigits(gs.score)
    IN  \A i \in 0..(SCORE_COUNTER_DIGITS - 1) :
            LET digit == gs.score_counter.digits[i + 1]
            IN  IF i < count
                THEN digit.visible /\ digit.current_view = (gs.score \div 10^i) % 10
                ELSE ~digit.visible

\* the obstacles a scroll_world call takes a point from: those that the
\* call moves to a column left of the bird's and whose flag is clear
Scorers(gs) ==
    { i \in 1..gs.obstacle_count :
        gs.obstacles[i].x - 1 < gs.bird.entity.x /\ ~gs.obstacles[i].score_collected }

\* C25: in a game a scroll_world call adds to the score one point for each
\* obstacle that it moves left of the bird's column and whose flag is clear,
\* and nothing for any other obstacle, one whose flag is set included;
\* when it adds a point the digits show the new score; an obstacle it took
\* a point from, or whose flag was set, has its flag set after the call
\* unless the call recycled it.
C25_OnePointPerObstaclePassed ==
    (pc = "scroll_world" /\ game_state.screen_type = GAME_SCREEN) =>
        \A r \in AllRands :
            LET after == scroll_world(game_state, r)
            IN  /\ after.score = game_state.score + Cardinality(Scorers(game_state))
                /\ Scorers(game_state) # {} => ShowsScore(after)
                /\ \A i \in 1..game_state.obstacle_count :
                        (i \in Scorers(game_state) \/ game_state.obstacles[i].score_collected)
                            => (after.obstacles[i].score_collected = ~Recycled(game_state, i))

\* C25 witness: in a game that started at score 0, scroll_world has left all
\* three obstacles left of the bird's column with their flags set,
\* and the score is 2 and shown: two obstacles gave a point each, the
\* third, whose flag was set before the call, gave none.
C25_Witness ==
    /\ pc = "scroll_world_done"
    /\ game_state.screen_type = GAME_SCREEN
    /\ game_state.score = 2
    /\ ShowsScore(game_state)
    /\ \A i \in 1..game_state.obstacle_count :
            /\ game_state.obstacles[i].x < game_state.bird.entity.x
            /\ game_state.obstacles[i].score_collected

----------------------------------------------------------------------------
(* The bird's motion: the claims, over the main loop *)

\* the largest whole number of cells not above v
Floor(v) == v \div UNIT

\* the velocity after the keys and gravity, lines 654-680
VelocityAfterGravity(gs, held, r) == tick_gravity(tick_keys(gs, held, r)).bird.velocity

\* C26: whenever game_tick runs, in Title and in Playing, whatever keys are
\* held, the bird's y at the end of the tick is its y before line 713 plus
\* floor(velocity), the velocity being the one after the tick's keys and
\* gravity. The code adds the velocity truncated toward zero, which is one
\* more than the floor for a negative fractional velocity, so this formula
\* is violated.
C26_MovesByFloorOfVelocity ==
    AtTimer(2) =>
        \A held \in SUBSET Keys : \A r \in AllRands :
            game_tick(game_state, held, r).bird.entity.y =
                tick_checks(tick_before_checks(game_state, held, r)).bird.entity.y
                    + Floor(VelocityAfterGravity(game_state, held, r))

\* an entity without what the game moves: its position, its visibility and
\* its active view
FixedOfEntity(entity) ==
    [entity EXCEPT !.x = 0, !.y = 0, !.visible = TRUE, !.current_view = 0]

\* a game state without what the game moves: positions, visibility and
\* active views of the entities, positions and flags of the obstacles,
\* score, velocity, mode and the quit flag
FixedOf(gs) ==
    [gs EXCEPT
        !.bird = [entity |-> FixedOfEntity(@.entity), velocity |-> 0],
        !.title_text = FixedOfEntity(@),
        !.press_space_to_start = FixedOfEntity(@),
        !.obstacles = [i \in DOMAIN @ |->
            [@[i] EXCEPT !.x = 0, !.y = 0, !.score_collected = FALSE,
                         !.top_entity = FixedOfEntity(@),
                         !.bottom_entity = FixedOfEntity(@)]],
        !.score_counter.digits = [i \in DOMAIN @ |-> FixedOfEntity(@[i])],
        !.score = 0,
        !.screen_type = TITLE_SCREEN,
        !.quit = FALSE]

\* C27: in every state of the main loop entity_count, obstacle_count, the
\* render list, the views and num_views of every entity and the gap_size of
\* every obstacle are as setup left them, and so is everything else in the
\* game state but positions, visibility, active views, score, velocity,
\* mode and flags; the same holds after scroll_world, animate_bird,
\* start_game and end_game called in any such state.
C27_SetupDataNeverChanges ==
    /\ game_state.entity_count = InitGameState.entity_count
    /\ game_state.obstacle_count = InitGameState.obstacle_count
    /\ game_state.entities = InitGameState.entities
    /\ \A k \in 1..game_state.entity_count :
            /\ Deref(game_state, game_state.entities[k]).num_views
                    = Deref(InitGameState, InitGameState.entities[k]).num_views
            /\ Deref(game_state, game_state.entities[k]).views
                    = Deref(InitGameState, InitGameState.entities[k]).views
    /\ \A i \in 1..game_state.obstacle_count :
            game_state.obstacles[i].gap_size = InitGameState.obstacles[i].gap_size
    /\ FixedOf(game_state) = FixedOf(InitGameState)
    /\ \A r \in AllRands :
            /\ FixedOf(scroll_world(game_state, r)) = FixedOf(InitGameState)
            /\ FixedOf(start_game(game_state, r)) = FixedOf(InitGameState)
    /\ FixedOf(animate_bird(game_state)) = FixedOf(InitGameState)
    /\ FixedOf(end_game(game_state)) = FixedOf(InitGameState)

\* C27 witness: the loop is in its second round in a game in which a point
\* was scored: mode, score, a flag, the bird's place and view, an obstacle's
\* place and the visibility of title and score digit have all changed
\* since setup.
C27_Witness ==
    /\ iteration = 2
    /\ game_state.screen_type = GAME_SCREEN
    /\ game_state.score = 1
    /\ \E i \in 1..game_state.obstacle_count : game_state.obstacles[i].score_collected
    /\ game_state.bird.entity.x # InitGameState.bird.entity.x
    /\ game_state.bird.entity.current_view # 0
    /\ game_state.bird.velocity # 0
    /\ game_state.obstacles[1].x # InitGameState.obstacles[1].x
    /\ ~game_state.title_text.visible
    /\ game_state.score_counter.digits[1].visible

(***************************************************************************)
(* game_tick called again and again: the runs of the main loop as the      *)
(* game_tick timer sees them, with the obstacles standing where start_game *)
(* placed them                                                             *)
(***************************************************************************)

\* the state main enters the loop with
InitTick ==
    /\ game_state = InitGameState
    /\ display_state = Unused
    /\ terminal = Unused
    /\ writes = Unused
    /\ periodic_timers = Unused
    /\ iteration = Unused
    /\ pc = "loop"
    /\ entity1 = Unused
    /\ entity2 = Unused
    /\ collision = FALSE
    /\ clock = Unused
    /\ timer_log = Unused
    /\ keys = {}
    /\ files = Unused

\* the key that acts on the bird's height and velocity; VK_LEFT and VK_RIGHT
\* move the bird along its row and VK_ESCAPE ends the loop
TickKeys == {VK_SPACE}

\* line 727: the game_tick timer is due while the loop runs; held is what
\* GetAsyncKeyState reports to this call
CallGameTick ==
    /\ ~game_state.quit
    /\ \E held \in SUBSET TickKeys :
        \E r \in RandSeqs([i \in 1..game_state.obstacle_count |->
                    \/ VK_SPACE \in held /\ game_state.screen_type = TITLE_SCREEN
                    \/ i = 1 /\ game_state.screen_type = TITLE_SCREEN]) :
            game_state' = game_tick(game_state, held, r)
    /\ UNCHANGED <<display_state, terminal, writes, periodic_timers, iteration, pc, entity1, entity2, collision, clock, timer_log, keys, files>>

NextTick == CallGameTick

SpecTick == InitTick /\ [][NextTick]_vars

\* C28: whenever the mode is Playing between two timer callbacks, the bird
\* is inside [0, SCREEN_WIDTH] x [0, SCREEN_HEIGHT].
C28_BirdInsideScreenWhilePlaying ==
    game_state.screen_type = GAME_SCREEN =>
        /\ game_state.bird.entity.x \in 0..SCREEN_WIDTH
        /\ game_state.bird.entity.y \in 0..SCREEN_HEIGHT

\* the flap of lines 666-668: 2 off the velocity when it is above -2
FlapsAsGuarded(gs) ==
    \A held \in SUBSET Keys : \A r \in [1..gs.obstacle_count -> RandValues] :
        tick_keys(gs, held, r).bird.velocity =
            IF VK_SPACE \in held /\ gs.bird.velocity > -2 * UNIT
            THEN gs.bird.velocity - 2 * UNIT
            ELSE gs.bird.velocity

\* C29: a flap takes 2 off the velocity exactly when the velocity is above
\* -2, and whenever the mode is Playing the velocity is at least -4, in
\* games started after the title screen's autopilot or after a game end
\* as well.
C29_VelocityAtLeastMinusFourWhilePlaying ==
    /\ FlapsAsGuarded(game_state)
    /\ game_state.screen_type = GAME_SCREEN => game_state.bird.velocity >= -4 * UNIT

\* what rand() may return to a game_tick that reads it once
TickRands == RandSeqs([i \in 1..game_state.obstacle_count |-> i = 1])

\* line 664: the call starts a game
StartsGame(gs, held) == VK_SPACE \in held /\ gs.screen_type = TITLE_SCREEN

\* line 691: the call takes the title screen's bird back to (0, 0)
Teleports(gs, held, r) ==
    LET g == tick_gravity(tick_keys(gs, held, r))
    IN  g.screen_type = TITLE_SCREEN /\ ~(g.bird.entity.x < SCREEN_WIDTH)

\* C30 as stated: the velocity is below 1.2 in every state and no game_tick
\* leaves y more than 1 above what it was.
C30_NoTickRaisesYByMoreThanOne ==
    /\ game_state.bird.velocity < UNIT + UNIT \div 5
    /\ \A held \in SUBSET TickKeys : \A r \in TickRands :
            game_tick(game_state, held, r).bird.entity.y <= game_state.bird.entity.y + 1

\* C30: gravity adds 0.2 to the velocity exactly when the velocity is below
\* 1 after the keys, so the velocity is below 1.2 in every state, line 713
\* adds at most 1 to y, and a game_tick that neither starts a game nor takes
\* the title screen's bird back to (0, 0) leaves y at most 1 above what it
\* was.
C30_GravityCapsVelocity ==
    /\ game_state.bird.velocity < UNIT + UNIT \div 5
    /\ \A held \in SUBSET TickKeys : \A r \in TickRands :
            LET afterKeys == tick_keys(game_state, held, r)
                beforeMove == tick_checks(tick_before_checks(game_state, held, r))
                after == game_tick(game_state, held, r)
            IN  /\ tick_gravity(afterKeys).bird.velocity =
                        IF afterKeys.bird.velocity < UNIT
                        THEN afterKeys.bird.velocity + UNIT \div 5
                        ELSE afterKeys.bird.velocity
                /\ after.bird.entity.y <= beforeMove.bird.entity.y + 1
                /\ ~StartsGame(game_state, held) /\ ~Teleports(game_state, held, r)
                        => after.bird.entity.y <= game_state.bird.entity.y + 1

\* C30 witness: in a game the bird has reached a velocity of 1 or more, at
\* which gravity adds nothing, and has fallen below the row it started in.
C30_Witness ==
    /\ game_state.screen_type = GAME_SCREEN
    /\ game_state.bird.velocity >= UNIT
    /\ game_state.bird.entity.y > SCREEN_HEIGHT \div 2
    /\ tick_gravity(game_state) = game_state

(***************************************************************************)
(* The passes of run_periodic_timers in which all three timers are due:    *)
(* the runs of the main loop on a machine where a pass takes longer than   *)
(* the longest period. The callbacks follow each other in the order of the *)
(* array; frames do not change the game state and are left out.            *)
(***************************************************************************)

MaxRounds == 3

InitRounds ==
    /\ game_state = InitGameState
    /\ display_state = Unused
    /\ terminal = Unused
    /\ writes = Unused
    /\ periodic_timers = Unused
    /\ iteration = 0
    /\ pc = "scroll_world"
    /\ entity1 = Unused
    /\ entity2 = Unused
    /\ collision = FALSE
    /\ clock = Unused
    /\ timer_log = Unused
    /\ keys = Unused
    /\ files = Unused

\* line 253 and lines 725-726 with callback scroll_world
RoundScrollWorld ==
    /\ pc = "scroll_world"
    /\ ~game_state.quit
    /\ iteration < MaxRounds
    /\ \E r \in RandSeqs([i \in 1..game_state.obstacle_count |->
                game_state.obstacles[i].x - 1
                    < -game_state.obstacles[i].top_entity.views[1].width]) :
            game_state' = scroll_world(game_state, r)
    /\ iteration' = iteration + 1
    /\ pc' = "animate_bird"
    /\ UNCHANGED <<display_state, terminal, writes, periodic_timers, entity1, entity2, collision, clock, timer_log, keys, files>>

\* lines 725-726 with callback animate_bird
RoundAnimateBird ==
    /\ pc = "animate_bird"
    /\ game_state' = animate_bird(game_state)
    /\ pc' = "game_tick"
    /\ UNCHANGED <<display_state, terminal, writes, periodic_timers, iteration, entity1, entity2, collision, clock, timer_log, keys, files>>

\* lines 725-726 with callback game_tick
RoundGameTick ==
    /\ pc = "game_tick"
    /\ \E held \in SUBSET Keys :
        \E r \in RandSeqs([i \in 1..game_state.obstacle_count |->
                    \/ VK_SPACE \in held /\ game_state.screen_type = TITLE_SCREEN
                    \/ i = 1 /\ game_state.screen_type = TITLE_SCREEN]) :
            game_state' = game_tick(game_state, held, r)
    /\ pc' = "scroll_world"
    /\ UNCHANGED <<display_state, terminal, writes, periodic_timers, iteration, entity1, entity2, collision, clock, timer_log, keys, files>>

NextRounds == RoundScrollWorld \/ RoundAnimateBird \/ RoundGameTick

SpecRounds == InitRounds /\ [][NextRounds]_vars

(***************************************************************************)
(* The score on the title screen: the claim, over these passes             *)
(***************************************************************************)

\* C31: whenever the mode is Title the score is 0; start_game and end_game
\* leave a score of 0, scroll_world raises the score in Playing only and
\* never lowers it, animate_bird leaves it alone and game_tick leaves it
\* alone or makes it 0.
C31_NoScoreOnTitleScreen ==
    /\ game_state.screen_type = TITLE_SCREEN => game_state.score = 0
    /\ end_game(game_state).score = 0
    /\ animate_bird(game_state).score = game_state.score
    /\ \A r \in AllRands :
            /\ start_game(game_state, r).score = 0
            /\ scroll_world(game_state, r).score >= game_state.score
            /\ game_state.screen_type = TITLE_SCREEN
                    => scroll_world(game_state, r).score = game_state.score
    /\ pc = "game_tick" =>
            \A held \in SUBSET Keys : \A r \in AllRands :
                game_tick(game_state, held, r).score \in {0, game_state.score}

\* C31 witness: the title screen after a game in which a point was scored:
\* the obstacle that gave the point still has its flag set.
C31_Witness ==
    /\ game_state.screen_type = TITLE_SCREEN
    /\ game_state.score = 0
    /\ \E i \in 1..game_state.obstacle_count : game_state.obstacles[i].score_collected

(***************************************************************************)
(* Scoring on and on in one game: scroll_world's lines 617-618 from the    *)
(* highest scores five digits can show                                     *)
(***************************************************************************)

\* how far below MaxScore the scores of the first states are
ScoreRunUp == 120

InitCounter ==
    /\ game_state \in { ScoreState(p) : p \in (MaxScore - ScoreRunUp)..MaxScore }
    /\ display_state = Unused
    /\ terminal = Unused
    /\ writes = Unused
    /\ periodic_timers = Unused
    /\ iteration = 0
    /\ pc = "playing"
    /\ entity1 = Unused
    /\ entity2 = Unused
    /\ collision = FALSE
    /\ clock = Unused
    /\ timer_log = Unused
    /\ keys = Unused
    /\ files = Unused

\* scroll_world, lines 617-618: an obstacle is passed; the code has no test
\* of the score
ScoreOnceMore ==
    /\ iteration < MaxScoreSteps
    /\ game_state' = update_score_counter([game_state EXCEPT !.score = @ + 1])
    /\ iteration' = iteration + 1
    /\ pc' = "updated"
    /\ UNCHANGED <<display_state, terminal, writes, periodic_timers, entity1, entity2, collision, clock, timer_log, keys, files>>

NextCounter == ScoreOnceMore

SpecCounter == InitCounter /\ [][NextCounter]_vars

\* C32: update_score_counter writes no digit entity with an index of
\* SCORE_COUNTER_DIGITS or more, whatever the score has grown to.
C32_DigitWritesInRange ==
    pc = "updated" => game_state.score_counter.stray = 0

(***************************************************************************)
(* The main loop on a millisecond clock: the frame test of line 255, the   *)
(* frame, and the scheduler pass with the timers' own tests of line 724    *)
(***************************************************************************)

FRAME_RATE == 144

\* line 255: 1000 / FRAME_RATE in int arithmetic
FramePeriod == 1000 \div FRAME_RATE

MaxFramePasses == 4

\* the milliseconds that pass between two iterations of the loop: less than
\* the frame period, the frame period, and more
FrameAdvances == {1, FramePeriod, FramePeriod + 1}

\* the milliseconds update_display takes
FlushTimes == {0, 1}

\* the keys held when game_tick runs
FrameKeys == {VK_SPACE}

InitFrames ==
    /\ game_state = InitGameState
    /\ display_state = [current_frame |-> FilledFrame(NUL),
                        next_frame |-> FilledFrame(NUL),
                        last_frame_time |-> 0]
    /\ terminal = cls
    /\ writes = <<>>
    /\ periodic_timers = InitTimers
    /\ iteration = 0
    /\ pc = "loop"
    /\ entity1 = Unused
    /\ entity2 = Unused
    /\ collision = FALSE
    /\ clock = StartTime
    /\ timer_log = Unused
    /\ keys = Unused
    /\ files = Unused

\* line 255 with >= for >
FrameDue_inclusive(ds, now) == now - ds.last_frame_time >= FramePeriod

\* line 255
FrameDue(ds, now) == now - ds.last_frame_time > FramePeriod

\* lines 253 and 255: the loop goes round and millis() is read
FrameTest ==
    /\ pc = "loop"
    /\ ~game_state.quit
    /\ iteration < MaxFramePasses
    /\ iteration' = iteration + 1
    /\ \E d \in FrameAdvances :
        /\ clock' = clock + d
        /\ pc' = IF FrameDue(display_state, clock + d)
                 THEN "render_next_frame" ELSE "timer_0"
    /\ UNCHANGED <<game_state, display_state, terminal, writes, periodic_timers, entity1, entity2, collision, timer_log, keys, files>>

\* line 256
FrameRender ==
    /\ pc = "render_next_frame"
    /\ display_state' = render_next_frame(display_state, game_state)
    /\ pc' = "update_display"
    /\ UNCHANGED <<game_state, terminal, writes, periodic_timers, iteration, entity1, entity2, collision, clock, timer_log, keys, files>>

\* line 257: update_display, whose last line reads millis() again
FrameFlush ==
    /\ pc = "update_display"
    /\ \E d \in FlushTimes :
        LET st == flush_cells(display_state, terminal)
        IN  /\ clock' = clock + d
            /\ display_state' = [st.ds EXCEPT !.last_frame_time = clock + d]
            /\ terminal' = st.terminal
            /\ writes' = st.writes
    /\ pc' = "timer_0"
    /\ UNCHANGED <<game_state, periodic_timers, iteration, entity1, entity2, collision, timer_log, keys, files>>

\* the callbacks taken from the array one place further on
Called_rotated(i, gs) ==
    IF i = 2
    THEN { scroll_world(gs, r) :
             r \in RandSeqs([k \in 1..gs.obstacle_count |->
                    gs.obstacles[k].x - 1 < -gs.obstacles[k].top_entity.views[1].width]) }
    ELSE IF i = 0
    THEN { animate_bird(gs) }
    ELSE UNION { { game_tick(gs, held, r) :
                     r \in RandSeqs([k \in 1..gs.obstacle_count |->
                            \/ VK_SPACE \in held /\ gs.screen_type = TITLE_SCREEN
                            \/ k = 1 /\ gs.screen_type = TITLE_SCREEN]) } :
                 held \in SUBSET FrameKeys }

\* what callback i may make of the game state
Called(i, gs) ==
    IF i = 0
    THEN { scroll_world(gs, r) :
             r \in RandSeqs([k \in 1..gs.obstacle_count |->
                    gs.obstacles[k].x - 1 < -gs.obstacles[k].top_entity.views[1].width]) }
    ELSE IF i = 1
    THEN { animate_bird(gs) }
    ELSE UNION { { game_tick(gs, held, r) :
                     r \in RandSeqs([k \in 1..gs.obstacle_count |->
                            \/ VK_SPACE \in held /\ gs.screen_type = TITLE_SCREEN
                            \/ k = 1 /\ gs.screen_type = TITLE_SCREEN]) } :
                 held \in SUBSET FrameKeys }

\* lines 724-727 for timer i when it is due
FrameTimerDue(i) ==
    /\ AtTimer(i)
    /\ Due(periodic_timers[i + 1], clock)
    /\ game_state' \in Called(i, game_state)
    /\ periodic_timers' = [periodic_timers EXCEPT ![i + 1].last_trigger_time = clock]
    /\ pc' = AfterTimer(i)
    /\ UNCHANGED <<display_state, terminal, writes, iteration, entity1, entity2, collision, clock, timer_log, keys, files>>

\* line 724 for timer i when it is not due
FrameTimerNotDue(i) ==
    /\ AtTimer(i)
    /\ ~Due(periodic_timers[i + 1], clock)
    /\ pc' = AfterTimer(i)
    /\ UNCHANGED <<game_state, display_state, terminal, writes, periodic_timers, iteration, entity1, entity2, collision, clock, timer_log, keys, files>>

NextFrames ==
    \/ FrameTest
    \/ FrameRender
    \/ FrameFlush
    \/ \E i \in 0..(Len(InitTimers) - 1) : FrameTimerDue(i)
    \/ \E i \in 0..(Len(InitTimers) - 1) : FrameTimerNotDue(i)

SpecFrames == InitFrames /\ [][NextFrames]_vars

\* C33: an iteration of the loop renders a frame exactly when the time read
\* is more than 1000/FRAME_RATE after last_frame_time, and goes to the
\* scheduler pass otherwise; a rendered frame is flushed next, before any
\* callback, and the pass follows the flush; the frames change in these
\* two steps only; hence at the start of every scheduler pass after the
\* first flush current_frame equals next_frame.
C33_FrameWhenDueThenPass ==
    /\ [][pc = "loop" =>
            /\ pc' \in {"render_next_frame", "timer_0"}
            /\ pc' = "render_next_frame"
                    <=> clock' - display_state.last_frame_time > 1000 \div FRAME_RATE]_vars
    /\ [][pc = "render_next_frame" =>
            /\ pc' = "update_display"
            /\ game_state' = game_state]_vars
    /\ [][pc = "update_display" =>
            /\ pc' = "timer_0"
            /\ game_state' = game_state
            /\ display_state'.current_frame = display_state.next_frame]_vars
    /\ [][display_state' # display_state
            => pc \in {"render_next_frame", "update_display"}]_vars
    /\ [](pc = "timer_0" /\ display_state.last_frame_time # 0
            => display_state.current_frame = display_state.next_frame)

\* C33 witness: a scheduler pass starts in an iteration that drew no frame,
\* the time read being exactly 1000/FRAME_RATE after last_frame_time, while
\* the game has moved on since the last frame.
C33_Witness ==
    /\ pc = "timer_0"
    /\ iteration >= 2
    /\ display_state.last_frame_time # 0
    /\ clock - display_state.last_frame_time = FramePeriod
    /\ render_next_frame(display_state, game_state).next_frame # display_state.next_frame
    /\ display_state.current_frame = display_state.next_frame

\* the game state is what the callback named leaves of gs
MadeBy(callback, gs, after) ==
    IF callback = "scroll_world"
    THEN \E r \in [1..gs.obstacle_count -> RandValues] : after = scroll_world(gs, r)
    ELSE IF callback = "animate_bird"
    THEN after = animate_bird(gs)
    ELSE \E held \in SUBSET Keys : \E r \in [1..gs.obstacle_count -> RandValues] :
            after = game_tick(gs, held, r)

\* C34: the array holds scroll_world, animate_bird and game_tick in this
\* order; a pass looks at the timers in the order of the array, and at each
\* it either calls the timer's callback, whole, if the timer is due, or
\* leaves the game state alone; the step changes no other timer's
\* last_trigger_time, and the game state changes in these steps only.
C34_DueTimersFireInArrayOrder ==
    /\ []([k \in 1..Len(periodic_timers) |-> periodic_timers[k].callback]
            = <<"scroll_world", "animate_bird", "game_tick">>)
    /\ [][\A i \in 0..(Len(periodic_timers) - 1) : AtTimer(i) =>
            /\ pc' = IF i = 2 THEN "loop" ELSE "timer_" \o ToString(i + 1)
            /\ \A j \in 1..Len(periodic_timers) :
                    j # i + 1 => periodic_timers'[j] = periodic_timers[j]
            /\ IF clock - periodic_timers[i + 1].last_trigger_time
                        > periodic_timers[i + 1].period
               THEN /\ MadeBy(periodic_timers[i + 1].callback, game_state, game_state')
                    /\ periodic_timers'[i + 1].last_trigger_time = clock'
               ELSE /\ game_state' = game_state
                    /\ periodic_timers' = periodic_timers]_vars
    /\ [][game_state' # game_state
            => \E i \in 0..(Len(periodic_timers) - 1) : AtTimer(i)]_vars

\* C34 witness: a pass is over in which all three timers fired: the prompt
\* has scrolled, the bird shows its next view and has moved.
C34_Witness ==
    /\ pc = "loop"
    /\ iteration >= 1
    /\ \A k \in 1..Len(periodic_timers) : periodic_timers[k].last_trigger_time = clock
    /\ game_state.press_space_to_start.x # InitGameState.press_space_to_start.x
    /\ game_state.bird.entity.current_view # InitGameState.bird.entity.current_view
    /\ game_state.bird.entity.x # InitGameState.bird.entity.x

(***************************************************************************)
(* The scheduler for ever: the passes of run_periodic_timers with the time *)
(* kept as the age of each timer's last trigger. now is 0 and              *)
(* last_trigger_time is minus the age; an age above the period is kept as  *)
(* period + 1, the test of line 724 telling no two such ages apart.        *)
(***************************************************************************)

\* the milliseconds that pass between two passes
PassAdvances == {0, 10, 250}

\* the timers d milliseconds later
Later(timers, d) ==
    [k \in 1..Len(timers) |->
        [timers[k] EXCEPT !.last_trigger_time =
            IF @ - d < -(timers[k].period + 1) THEN -(timers[k].period + 1) ELSE @ - d]]

\* line 253 with the timers never triggered: the time is the UNIX time,
\* far more than any period
InitFiring ==
    /\ periodic_timers = Later(InitTimers, InitTimers[2].period + 1)
    /\ clock = 0
    /\ timer_log = <<>>
    /\ pc = "loop"
    /\ iteration = Unused
    /\ game_state = Unused
    /\ display_state = Unused
    /\ terminal = Unused
    /\ writes = Unused
    /\ entity1 = Unused
    /\ entity2 = Unused
    /\ collision = FALSE
    /\ keys = Unused
    /\ files = Unused

\* lines 253-263: the loop goes round; clock is the time it took
PassBegins ==
    /\ pc = "loop"
    /\ \E d \in PassAdvances :
        /\ clock' = d
        /\ periodic_timers' = Later(periodic_timers, d)
    /\ timer_log' = <<>>
    /\ pc' = "timer_0"
    /\ UNCHANGED <<game_state, display_state, terminal, writes, iteration, entity1, entity2, collision, keys, files>>

\* lines 724-727 for timer i when it is due; timer_log lists the timers
\* that fired in this pass
Fires(i) ==
    /\ AtTimer(i)
    /\ Due(periodic_timers[i + 1], 0)
    /\ periodic_timers' = [periodic_timers EXCEPT ![i + 1].last_trigger_time = 0]
    /\ timer_log' = Append(timer_log, i)
    /\ pc' = AfterTimer(i)
    /\ UNCHANGED <<game_state, display_state, terminal, writes, iteration, entity1, entity2, collision, clock, keys, files>>

\* line 724 for timer i when it is not due
Waits(i) ==
    /\ AtTimer(i)
    /\ ~Due(periodic_timers[i + 1], 0)
    /\ pc' = AfterTimer(i)
    /\ UNCHANGED <<game_state, display_state, terminal, writes, periodic_timers, iteration, entity1, entity2, collision, clock, timer_log, keys, files>>

NextFiring ==
    \/ PassBegins
    \/ \E i \in 0..(Len(InitTimers) - 1) : Fires(i)
    \/ \E i \in 0..(Len(InitTimers) - 1) : Waits(i)

\* the loop does not stop while quit is not set
SpecFiring == InitFiring /\ [][NextFiring]_vars /\ WF_vars(NextFiring)

\* timer i has just fired
JustFired(i) ==
    /\ pc = AfterTimer(i)
    /\ timer_log # <<>>
    /\ timer_log[Len(timer_log)] = i

\* C35: a timer fires only when its last trigger is more than its period
\* ago, the periods being 50, 250 and 20 ms; and if time passes between
\* the passes again and again, each of the three timers fires again and
\* again.
C35_TimersFireForEver ==
    /\ []([k \in 1..Len(periodic_timers) |-> periodic_timers[k].period] = <<50, 250, 20>>)
    /\ [][\A i \in 0..(Len(periodic_timers) - 1) :
            (AtTimer(i) /\ timer_log' # timer_log)
                => 0 - periodic_timers[i + 1].last_trigger_time
                        > periodic_timers[i + 1].period]_vars
    /\ ([]<>(pc = "timer_0" /\ clock > 0))
            => \A i \in 0..(Len(InitTimers) - 1) : []<>JustFired(i)

\* C35 witness: a pass is over in which game_tick's timer fired again, more
\* than its period after it last did, while the timers of scroll_world and
\* animate_bird, triggered before and not yet due, did not.
C35_Witness ==
    /\ pc = "loop"
    /\ timer_log = <<2>>
    /\ clock > 0
    /\ periodic_timers[1].last_trigger_time \in (-periodic_timers[1].period)..(-1)
    /\ periodic_timers[2].last_trigger_time \in (-periodic_timers[2].period)..(-1)

(***************************************************************************)
(* After the quit flag is set: the claim, over the main loop               *)
(***************************************************************************)

\* C36: the quit flag is set by game_tick, the last timer of the pass, so
\* the loop's test comes next: once the flag is set the only step left is
\* the exit, and the game state, the frames and the timers stay as they
\* are: no callback runs and no frame is rendered or flushed.
C36_NothingRunsAfterQuit ==
    /\ [](game_state.quit => pc \in {"loop", "exited"})
    /\ [][game_state.quit =>
            /\ pc = "loop" /\ pc' = "exited"
            /\ game_state' = game_state
            /\ display_state' = display_state
            /\ periodic_timers' = periodic_timers
            /\ terminal' = print_farewell(cls)]_vars

\* C36 witness: game_tick has just set the flag, in the first pass, after
\* the first frame was flushed and the other two callbacks ran.
C36_Witness ==
    /\ pc = "loop"
    /\ game_state.quit
    /\ iteration = 1
    /\ display_state.last_frame_time # 0
    /\ \A k \in 1..Len(periodic_timers) : periodic_timers[k].last_trigger_time # 0

(***************************************************************************)
(* Where the obstacles are: the claim, over scroll_world on placed         *)
(* obstacles                                                               *)
(***************************************************************************)

\* an obstacle is between the column at which its top part has just left
\* the screen and the right edge, and its centre is in the middle half of
\* the screen's height: from SCREEN_HEIGHT / 4 up to, and not including,
\* SCREEN_HEIGHT / 4 + (SCREEN_HEIGHT - SCREEN_HEIGHT / 2), which is
\* 3 * SCREEN_HEIGHT / 4 for a height that is a multiple of 4, as 80 is
ObstacleInRange(obstacle) ==
    /\ 0 - obstacle.top_entity.views[1].width <= obstacle.x
    /\ obstacle.x <= SCREEN_WIDTH
    /\ SCREEN_HEIGHT \div 4 <= obstacle.y
    /\ obstacle.y < SCREEN_HEIGHT \div 4 + (SCREEN_HEIGHT - SCREEN_HEIGHT \div 2)
    /\ SCREEN_HEIGHT % 4 = 0 => obstacle.y < (3 * SCREEN_HEIGHT) \div 4

ObstaclesInRange(gs) ==
    \A i \in 1..gs.obstacle_count : ObstacleInRange(gs.obstacles[i])

\* C37: every obstacle is in range after setup, before and after every
\* call of scroll_world, and after start_game called in any such state;
\* whatever rand() returns, the centre drawn from it is in range.
C37_ObstaclesInRange ==
    /\ ObstaclesInRange(InitGameState)
    /\ ObstaclesInRange(game_state)
    /\ \A r \in AllRands :
            /\ ObstaclesInRange(scroll_world(game_state, r))
            /\ ObstaclesInRange(start_game(game_state, r))
    /\ \A a \in 0..(2 * SCREEN_HEIGHT) :
            /\ SCREEN_HEIGHT \div 4 <= RandomCentre(a)
            /\ RandomCentre(a) < SCREEN_HEIGHT \div 4 + (SCREEN_HEIGHT - SCREEN_HEIGHT \div 2)
            /\ SCREEN_HEIGHT % 4 = 0 => RandomCentre(a) < (3 * SCREEN_HEIGHT) \div 4

\* C37 witness: scroll_world has returned with one obstacle at the last
\* column before recycling and another recycled to the right edge, its
\* centre drawn from the highest rand() result.
C37_Witness ==
    /\ pc = "scroll_world_done"
    /\ \E i, j \in 1..game_state.obstacle_count :
        /\ game_state.obstacles[i].x = 0 - game_state.obstacles[i].top_entity.views[1].width
        /\ game_state.obstacles[j].x = SCREEN_WIDTH
        /\ game_state.obstacles[j].y = RandomCentre(RAND_MAX)
        /\ ~game_state.obstacles[j].score_collected

(***************************************************************************)
(* The title screen left alone: game_tick called again and again with no   *)
(* key held                                                                *)
(***************************************************************************)

\* line 727 with callback game_tick, no key down; a is what rand() returns
\* if line 685 is reached
TitleTick ==
    /\ pc = "loop"
    /\ ~game_state.quit
    /\ \E r \in RandSeqs([i \in 1..game_state.obstacle_count |-> i = 1]) :
            game_state' = game_tick(game_state, {}, r)
    /\ UNCHANGED <<display_state, terminal, writes, periodic_timers, iteration, pc, entity1, entity2, collision, clock, timer_log, keys, files>>

NextTitle == TitleTick

\* game ticks keep firing
SpecTitle == InitTick /\ [][NextTitle]_vars /\ WF_vars(TitleTick)

\* what line 685 takes off the velocity when rand() returns a
ImpulseOf(a) ==
    LET low == [InitGameState EXCEPT !.bird.entity.y = SCREEN_HEIGHT]
    IN  low.bird.velocity - tick_title(low, a).bird.velocity

====
